---------------------------- MODULE Spec2Model ----------------------------
(***************************************************************************)
(* Arena shooter (src/main.py): the weapon / ammo / reload model of        *)
(* Player, the shotgun falloff of Bullet.get_damage, and the grenade /     *)
(* explosion pass of Game.update.                                          *)
(*                                                                         *)
(* Three specifications share the variables below:                         *)
(*   Spec         the player's weapon state machine driven by the input    *)
(*                handlers of Game.handle_events and by the per-frame      *)
(*                Game.update;                                             *)
(*   SpecShotgun  Bullet.get_damage applied to a flying pellet;            *)
(*   SpecGrenade  thrown grenades, their fuse, detonation and explosions.  *)
(***************************************************************************)
EXTENDS Integers, Naturals, Sequences, FiniteSets, TLC

(***************************************************************************)
(* Bounds of the model.  Magazine sizes, refill counts, fire intervals and *)
(* reload durations of the catalogue and the recoil ceiling are capped so  *)
(* that a whole magazine and a whole reload fit into the explored state    *)
(* space.                                                                  *)
(***************************************************************************)
MaxMag == 2
MaxThrowables == 1
MaxReloads == 1
MaxFireRate == 1
MaxReloadTime == 2
MaxRecoil == 2
MaxReloadCycles == 2
MaxHitRobots == 3
MaxHits == 2
MaxFreeze == 2
MaxSettle == 3
MaxLife == 2
MaxWalk == 2
MaxShots == 2
MaxPatternTime == 4
MaxBossFireRate == 2
MaxBotFireRate == 2
MaxKnifeCooldown == 2
MaxCoins == 60
MaxPrompts == 2
MaxBossHealth == 50
MaxStrikeRobots == 2
MaxStrikeBullets == 1
MaxStrikes == 3
MaxBulletLife == 4
MaxLoopBullets == 3
MaxLoopGrenades == 2
MaxLoopFrames == 2

Cap(v, m) == IF v > m THEN m ELSE v

(***************************************************************************)
(* Weapon catalogue of a fresh player: the five entries Player.__init__    *)
(* always creates.  Keys a dict entry lacks carry the default its readers  *)
(* pass to dict.get (reload_time 60, no_reload / shotgun / smoke_grenade   *)
(* False).                                                                 *)
(***************************************************************************)
WeaponCatalog ==
  << [name |-> "Rifle", ammo |-> 30, max_ammo |-> 30, reloads |-> 5,
      fire_rate |-> 6, damage |-> 28, bullet_speed |-> 22, melee |-> FALSE,
      grenade |-> FALSE, smoke_grenade |-> FALSE, no_reload |-> FALSE,
      shotgun |-> FALSE, recoil |-> 3, reload_time |-> 90],
     [name |-> "Handgun", ammo |-> 17, max_ammo |-> 17, reloads |-> 6,
      fire_rate |-> 8, damage |-> 18, bullet_speed |-> 20, melee |-> FALSE,
      grenade |-> FALSE, smoke_grenade |-> FALSE, no_reload |-> FALSE,
      shotgun |-> FALSE, recoil |-> 2, reload_time |-> 60],
     [name |-> "Knife", ammo |-> 999, max_ammo |-> 999, reloads |-> 999,
      fire_rate |-> 15, damage |-> 75, bullet_speed |-> 0, melee |-> TRUE,
      grenade |-> FALSE, smoke_grenade |-> FALSE, no_reload |-> FALSE,
      shotgun |-> FALSE, recoil |-> 0, reload_time |-> 60],
     [name |-> "Grenade", ammo |-> 4, max_ammo |-> 4, reloads |-> 0,
      fire_rate |-> 50, damage |-> 150, bullet_speed |-> 0, melee |-> FALSE,
      grenade |-> TRUE, smoke_grenade |-> FALSE, no_reload |-> TRUE,
      shotgun |-> FALSE, recoil |-> 0, reload_time |-> 60],
     [name |-> "Smoke", ammo |-> 3, max_ammo |-> 3, reloads |-> 0,
      fire_rate |-> 50, damage |-> 0, bullet_speed |-> 0, melee |-> FALSE,
      grenade |-> FALSE, smoke_grenade |-> TRUE, no_reload |-> TRUE,
      shotgun |-> FALSE, recoil |-> 0, reload_time |-> 60] >>

NumWeapons == Len(WeaponCatalog)

\* The catalogue as the model plays it: counts and durations capped.
MagCap(w) == IF w.grenade \/ w.smoke_grenade THEN MaxThrowables ELSE MaxMag

Weapons ==
  [i \in 1..NumWeapons |->
     [WeaponCatalog[i] EXCEPT
        !.ammo = Cap(@, MagCap(WeaponCatalog[i])),
        !.max_ammo = Cap(@, MagCap(WeaponCatalog[i])),
        !.reloads = Cap(@, MaxReloads), !.fire_rate = Cap(@, MaxFireRate),
        !.reload_time = Cap(@, MaxReloadTime)]]

\* The cooldown a number-key or deferred weapon switch imposes (15 frames).
SwitchCooldown == Cap(15, MaxFireRate)

VARIABLES
  player,      \* Player: current_weapon, weapons (ammo, reloads), cooldown, reload, recoil
  ret,         \* value returned by Player.shoot when the last step called it
  flag,        \* boolean returned by start_reload / update_reload in the last step
  call,        \* the Player method the last step called: shoot, start_reload, frame (update, update_recoil, update_reload) or none
  spawned,     \* what the orchestrator added to its collections in the last step
  crashed,     \* an uncaught exception ended the main loop
  reload_log,  \* history: where and how the reload in progress was started
  bullet,      \* SpecShotgun: one player bullet in flight (distance from its start point)
  hit_damage,  \* SpecShotgun: what get_damage() returned when the bullet struck, -1 before
  game,        \* SpecGrenade: Game fields: state, difficulty, robots, grenades, explosions, player health, coins, ...
  fuse,        \* SpecFuse: one Grenade object, the update() calls made on it and what should_explode() answered
  arena,       \* SpecHit: Game fields read and written when a player bullet strikes a robot: robots, kills, score, coins, state
  hit_log,     \* SpecHit: history: the last bullet hit (weapon, robot, damage) and, per robot, the countdown a hit set and the updates since
  wave,        \* SpecWave: Game fields of the wave director: state, difficulty, current_wave, max_waves, wave_complete_timer, robots (their number), boss
  wave_log,    \* SpecWave: history: what the last step was (frame, next_wave, won, kill, boss_kill, lost, restart, escape, menu)
  team,        \* SpecTeam: the match of two players: state, game_mode, player.health, player2 (present, health), pvp_winner
  team_log,    \* SpecTeam: history: the source of the last step's hit and whose take_damage returned True
  loop,        \* SpecLoop: state, bullets (their lifetimes), grenades (their lifetimes)
  loop_log,    \* SpecLoop: history: frames run (capped) and the phases the last frame carried out
  strike,      \* SpecStrike: ar (the robots and counters of a match), boss (present, health), bullets (player bullets in flight)
  strike_log,  \* SpecStrike: history: the last strike's weapon, the robots overlapped, whether the boss was overlapped, the damage
  shop,        \* SpecShop: state, game_mode, difficulty, coins, has_shotgun, has_rpg, shop_prompted
  shop_log,    \* SpecShop: history: how often a kill opened the shop for the shotgun threshold and for the RPG threshold (capped)
  bot,         \* SpecBot: game_mode, difficulty, player2_alive, robot (bot_type, knife_only, state, fire_cooldown, fire_rate, knife_cooldown)
  bot_log,     \* SpecBot: history: the last turn's target distance, smoke, what the robot did (none, knife, shoot), the knifed player's distance and the damage, the bullets added, the frames since the last knife attack and the knife attacks so far
  boss,        \* SpecBoss: one Boss: attack_pattern, pattern_timer, is_charging, charge_target, cdist (distance to it), fire_cooldown, fire_rate; locked, landed (what the last update did)
  boss_log,    \* SpecBoss: history: calls under the pattern in course, lengths of the first and of the last finished pattern, locks and arrival of the charge, last volley
  fire,        \* SpecFire: one player's current_weapon, fire_cooldown and deferred switch
  fire_log,    \* SpecFire: history: the weapon of the last shot, the frames since it (capped) and the shots so far
  combat,      \* SpecCombat: a co-op match: both players' health, player 1's weapon, cooldown and position, and what the players added
  blast_log    \* SpecGrenade: history: per grenade thrown, the Explosions made for it and the damage it applied (target, distance, amount)

weaponVars == << player, ret, flag, call, spawned, crashed, reload_log >>
shotgunVars == << bullet, hit_damage >>
grenadeVars == << game, blast_log >>
fuseVars == << fuse >>
hitVars == << arena, hit_log >>
waveVars == << wave, wave_log >>
loopVars == << loop, loop_log >>
strikeVars == << strike, strike_log >>
shopVars == << shop, shop_log >>
botVars == << bot, bot_log >>
bossVars == << boss, boss_log >>
fireVars == << fire, fire_log >>
combatVars == << combat >>
teamVars == << team, team_log >>

\* What the handlers of one part of the program leave alone.
exceptWeapon == << shotgunVars, grenadeVars, fuseVars, hitVars, waveVars, teamVars, loopVars, strikeVars, shopVars, botVars, bossVars, fireVars, combatVars >>
exceptShotgun == << weaponVars, grenadeVars, fuseVars, hitVars, waveVars, teamVars, loopVars, strikeVars, shopVars, botVars, bossVars, fireVars, combatVars >>
exceptGrenade == << weaponVars, shotgunVars, fuseVars, hitVars, waveVars, teamVars, loopVars, strikeVars, shopVars, botVars, bossVars, fireVars, combatVars >>
exceptFuse == << weaponVars, shotgunVars, grenadeVars, hitVars, waveVars, teamVars, loopVars, strikeVars, shopVars, botVars, bossVars, fireVars, combatVars >>
exceptWave == << weaponVars, shotgunVars, grenadeVars, fuseVars, hitVars, teamVars, loopVars, strikeVars, shopVars, botVars, bossVars, fireVars, combatVars >>
exceptTeam == << weaponVars, shotgunVars, grenadeVars, fuseVars, hitVars, waveVars, loopVars, strikeVars, shopVars, botVars, bossVars, fireVars, combatVars >>
exceptLoop == << weaponVars, shotgunVars, grenadeVars, fuseVars, hitVars, waveVars, teamVars, strikeVars, shopVars, botVars, bossVars, fireVars, combatVars >>
exceptStrike == << weaponVars, shotgunVars, grenadeVars, fuseVars, hitVars, waveVars, teamVars, loopVars, shopVars, botVars, bossVars, fireVars, combatVars >>
exceptShop == << weaponVars, shotgunVars, grenadeVars, fuseVars, hitVars, waveVars, teamVars, loopVars, strikeVars, botVars, bossVars, fireVars, combatVars >>
exceptBot == << weaponVars, shotgunVars, grenadeVars, fuseVars, hitVars, waveVars, teamVars, loopVars, strikeVars, shopVars, bossVars, fireVars, combatVars >>
exceptBoss == << weaponVars, shotgunVars, grenadeVars, fuseVars, hitVars, waveVars, teamVars, loopVars, strikeVars, shopVars, botVars, fireVars, combatVars >>
exceptFire == << weaponVars, shotgunVars, grenadeVars, fuseVars, hitVars, waveVars, teamVars, loopVars, strikeVars, shopVars, botVars, bossVars, combatVars >>
exceptCombat == << weaponVars, shotgunVars, grenadeVars, fuseVars, hitVars, waveVars, teamVars, loopVars, strikeVars, shopVars, botVars, bossVars, fireVars >>
exceptHit == << weaponVars, shotgunVars, grenadeVars, fuseVars, waveVars, teamVars, loopVars, strikeVars, shopVars, botVars, bossVars, fireVars, combatVars >>

----------------------------------------------------------------------------
(* Player accessors (the properties weapon / ammo / max_ammo).             *)

weapon(p) == Weapons[p.current_weapon + 1]
ammo(p) == p.weapons[p.current_weapon + 1].ammo
max_ammo(p) == weapon(p).max_ammo
reloads(p) == p.weapons[p.current_weapon + 1].reloads

NoneRet == [kind |-> "None", damage |-> 0, speed |-> 0, weapon_type |-> "",
            is_shotgun |-> FALSE]

\* The Bullet Player.shoot builds from the equipped weapon w: speed,
\* base_damage = damage, the weapon's name as weapon_type, the shotgun flag.
NewBullet(w) ==
  [kind |-> "Bullet", damage |-> w.damage, speed |-> w.bullet_speed,
   weapon_type |-> w.name, is_shotgun |-> w.shotgun]

PlayerInit ==
  [current_weapon |-> 0,
   weapons |-> [i \in 1..NumWeapons |->
                  [ammo |-> Weapons[i].ammo, reloads |-> Weapons[i].reloads]],
   fire_cooldown |-> 0,
   recoil |-> 0,
   reloading |-> FALSE,
   reload_timer |-> 0,
   reload_duration |-> Cap(60, MaxReloadTime),
   reload_phase |-> 0,
   want_switch |-> FALSE]

\* The ceiling of the recoil (15).
RecoilCap == Cap(15, MaxRecoil)

\* Player.apply_recoil: recoil = min(recoil + amount, 15).
apply_recoil(p, amount) ==
  [p EXCEPT !.recoil = IF p.recoil + amount > RecoilCap THEN RecoilCap
                       ELSE p.recoil + amount]

\* Player.update_recoil: recoil *= 0.85, and a recoil below 0.1 snaps to 0.
\* The float is held in whole units: the product is truncated, so the
\* decay reaches 0 in fewer frames than the float does.
update_recoil(p) == [p EXCEPT !.recoil = (p.recoil * 85) \div 100]


\* Variant of shoot without the "can't shoot while reloading" return.
shoot_noReloadingCheck(p) ==
  IF p.fire_cooldown > 0 THEN [p |-> p, ret |-> NoneRet]
  ELSE IF ~weapon(p).melee /\ ammo(p) <= 0 THEN [p |-> p, ret |-> NoneRet]
  ELSE
    LET w  == weapon(p)
        p1 == IF ~w.melee
              THEN [p EXCEPT !.weapons[p.current_weapon + 1].ammo = @ - 1]
              ELSE p
        p2 == [p1 EXCEPT !.fire_cooldown = w.fire_rate]
    IN  IF w.melee
          THEN [p |-> p2,
                ret |-> [NoneRet EXCEPT !.kind = "melee", !.damage = w.damage]]
        ELSE IF w.grenade
          THEN [p |-> p2, ret |-> [NoneRet EXCEPT !.kind = "grenade"]]
        ELSE [p |-> apply_recoil(p2, w.recoil),
              ret |-> NewBullet(w)]

\* Variant of shoot that spends a round for the knife too.
shoot_meleeUsesAmmo(p) ==
  IF p.fire_cooldown > 0 THEN [p |-> p, ret |-> NoneRet]
  ELSE IF p.reloading THEN [p |-> p, ret |-> NoneRet]
  ELSE IF ammo(p) <= 0 THEN [p |-> p, ret |-> NoneRet]
  ELSE
    LET w  == weapon(p)
        p1 == [p EXCEPT !.weapons[p.current_weapon + 1].ammo = @ - 1]
        p2 == [p1 EXCEPT !.fire_cooldown = w.fire_rate]
    IN  IF w.melee
          THEN [p |-> p2,
                ret |-> [NoneRet EXCEPT !.kind = "melee", !.damage = w.damage]]
        ELSE IF w.grenade
          THEN [p |-> p2, ret |-> [NoneRet EXCEPT !.kind = "grenade"]]
        ELSE [p |-> apply_recoil(p2, w.recoil),
              ret |-> NewBullet(w)]

\* Variant of shoot without the empty-magazine return.
shoot_noAmmoCheck(p) ==
  IF p.fire_cooldown > 0 THEN [p |-> p, ret |-> NoneRet]
  ELSE IF p.reloading THEN [p |-> p, ret |-> NoneRet]
  ELSE
    LET w  == weapon(p)
        p1 == IF ~w.melee
              THEN [p EXCEPT !.weapons[p.current_weapon + 1].ammo = @ - 1]
              ELSE p
        p2 == [p1 EXCEPT !.fire_cooldown = w.fire_rate]
    IN  IF w.melee
          THEN [p |-> p2,
                ret |-> [NoneRet EXCEPT !.kind = "melee", !.damage = w.damage]]
        ELSE IF w.grenade
          THEN [p |-> p2, ret |-> [NoneRet EXCEPT !.kind = "grenade"]]
        ELSE [p |-> apply_recoil(p2, w.recoil),
              ret |-> NewBullet(w)]

(***************************************************************************)
(* Player.shoot.  Returns the player after the call and the value          *)
(* returned: None, the melee dict, the grenade dict, or a Bullet.          *)
(***************************************************************************)
shoot(p) ==
  IF p.fire_cooldown > 0 THEN [p |-> p, ret |-> NoneRet]
  ELSE IF p.reloading THEN [p |-> p, ret |-> NoneRet]
  ELSE IF ~weapon(p).melee /\ ammo(p) <= 0 THEN [p |-> p, ret |-> NoneRet]
  ELSE
    LET w  == weapon(p)
        p1 == IF ~w.melee
              THEN [p EXCEPT !.weapons[p.current_weapon + 1].ammo = @ - 1]
              ELSE p
        p2 == [p1 EXCEPT !.fire_cooldown = w.fire_rate]
    IN  IF w.melee
          THEN [p |-> p2,
                ret |-> [NoneRet EXCEPT !.kind = "melee", !.damage = w.damage]]
        ELSE IF w.grenade
          THEN [p |-> p2, ret |-> [NoneRet EXCEPT !.kind = "grenade"]]
        ELSE [p |-> apply_recoil(p2, w.recoil),
              ret |-> NewBullet(w)]

(***************************************************************************)
(* Player.start_reload.  flag is the boolean the method returns.           *)
(***************************************************************************)
start_reload(p) ==
  IF ~p.reloading /\ ~weapon(p).no_reload
     /\ reloads(p) > 0 /\ ammo(p) < max_ammo(p)
  THEN [p |-> [p EXCEPT !.reloading = TRUE,
                        !.reload_duration = weapon(p).reload_time,
                        !.reload_timer = weapon(p).reload_time,
                        !.reload_phase = 0],
        flag |-> TRUE]
  ELSE [p |-> p, flag |-> FALSE]

\* Variant of update_reload that finishes one call late (timer < 0).
update_reload_lateFinish(p) ==
  IF p.reloading
  THEN LET t  == p.reload_timer - 1
           p1 == [p EXCEPT !.reload_timer = t,
                           !.reload_phase = p.reload_duration - t]
       IN  IF t < 0
           THEN [p |-> [p1 EXCEPT
                          !.reloading = FALSE,
                          !.reload_phase = 0,
                          !.weapons[p.current_weapon + 1].reloads = @ - 1,
                          !.weapons[p.current_weapon + 1].ammo = max_ammo(p)],
                 flag |-> TRUE]
           ELSE [p |-> p1, flag |-> FALSE]
  ELSE [p |-> p, flag |-> FALSE]

(***************************************************************************)
(* Player.update_reload.  reload_phase = 1 - timer/duration is held as the *)
(* numerator (duration - timer) over reload_duration.  The refill and the  *)
(* consumed charge go to self.weapon, the weapon equipped at this call.    *)
(***************************************************************************)
update_reload(p) ==
  IF p.reloading
  THEN LET t  == p.reload_timer - 1
           p1 == [p EXCEPT !.reload_timer = t,
                           !.reload_phase = p.reload_duration - t]
       IN  IF t <= 0
           THEN [p |-> [p1 EXCEPT
                          !.reloading = FALSE,
                          !.reload_phase = 0,
                          !.weapons[p.current_weapon + 1].reloads = @ - 1,
                          !.weapons[p.current_weapon + 1].ammo = max_ammo(p)],
                 flag |-> TRUE]
           ELSE [p |-> p1, flag |-> FALSE]
  ELSE [p |-> p, flag |-> FALSE]

\* Player.switch_weapon: only raises the flag Player.update consumes.
switch_weapon(p) == [p EXCEPT !.want_switch = TRUE]

(***************************************************************************)
(* Player.update, the part that touches the weapon state: the fire         *)
(* cooldown counts down, then a deferred switch moves to the next weapon   *)
(* and imposes the switch cooldown.                                        *)
(***************************************************************************)
update(p) ==
  LET p1 == IF p.fire_cooldown > 0
            THEN [p EXCEPT !.fire_cooldown = @ - 1] ELSE p
  IN  IF p1.want_switch
      THEN IF NumWeapons > 1
           THEN [p1 EXCEPT !.want_switch = FALSE,
                           !.current_weapon = (@ + 1) % NumWeapons,
                           !.fire_cooldown = SwitchCooldown]
           ELSE [p1 EXCEPT !.want_switch = FALSE]
      ELSE p1


\* Game.add_gun_effects: the extra recoil impulse of continuous fire
\* (recoil_amounts.get(weapon_name, 2)).
add_gun_effects(p) ==
  LET n == weapon(p).name
  IN  apply_recoil(p, IF n = "Rifle" THEN 3 ELSE 2)

----------------------------------------------------------------------------
(* History of the reload in progress: the weapon equipped when             *)
(* start_reload succeeded, its reloads then, the update_reload calls made  *)
(* since, and the number of reloads started so far.                        *)

NoReload == [weapon |-> 0, reloads |-> 0, calls |-> 0, cycles |-> 0]

LogStart(log, p) ==
  [weapon |-> p.current_weapon, reloads |-> reloads(p), calls |-> 0,
   cycles |-> log.cycles + 1]

\* The record of a finished reload is dropped by the step after it.
LogKeep(log, p) ==
  IF p.reloading THEN log ELSE [NoReload EXCEPT !.cycles = log.cycles]

LogTick(log, p) ==
  IF p.reloading THEN [log EXCEPT !.calls = @ + 1] ELSE LogKeep(log, p)

----------------------------------------------------------------------------
(* Input handlers of Game.handle_events in the playing state, player 1.    *)

\* K_r, and the touch reload button: start_reload unless already reloading.
\* A press that would start a reload is offered only until
\* MaxReloadCycles reloads have been started (bound of the model).
KeyReload ==
  /\ ~crashed
  /\ UNCHANGED exceptWeapon
  /\ start_reload(player).flag => reload_log.cycles < MaxReloadCycles
  /\ IF ~player.reloading
     THEN LET r == start_reload(player)
          IN  /\ player' = r.p
              /\ flag' = r.flag
              /\ call' = "start_reload"
              /\ reload_log' = IF r.flag THEN LogStart(reload_log, player)
                               ELSE LogKeep(reload_log, player)
     ELSE /\ UNCHANGED << player, reload_log >>
          /\ flag' = FALSE
          /\ call' = "none"
  /\ ret' = NoneRet
  /\ spawned' = "nothing"
  /\ UNCHANGED crashed

\* K_q: next weapon, no cooldown.
KeyNextWeapon ==
  /\ ~crashed
  /\ UNCHANGED exceptWeapon
  /\ NumWeapons > 1
  /\ player' = [player EXCEPT !.current_weapon = (@ + 1) % NumWeapons]
  /\ call' = "none" /\ ret' = NoneRet /\ flag' = FALSE /\ spawned' = "nothing"
  /\ reload_log' = LogKeep(reload_log, player)
  /\ UNCHANGED crashed

\* K_e: previous weapon, no cooldown.
KeyPrevWeapon ==
  /\ ~crashed
  /\ UNCHANGED exceptWeapon
  /\ NumWeapons > 1
  /\ player' = [player EXCEPT !.current_weapon = (@ + NumWeapons - 1) % NumWeapons]
  /\ call' = "none" /\ ret' = NoneRet /\ flag' = FALSE /\ spawned' = "nothing"
  /\ reload_log' = LogKeep(reload_log, player)
  /\ UNCHANGED crashed

\* K_1 .. K_9: direct selection, imposes the switch cooldown.
KeyNumber ==
  /\ ~crashed
  /\ UNCHANGED exceptWeapon
  /\ \E weapon_idx \in 0..8 :
       /\ weapon_idx < NumWeapons
       /\ player' = [player EXCEPT !.current_weapon = weapon_idx,
                                   !.fire_cooldown = SwitchCooldown]
  /\ call' = "none" /\ ret' = NoneRet /\ flag' = FALSE /\ spawned' = "nothing"
  /\ reload_log' = LogKeep(reload_log, player)
  /\ UNCHANGED crashed

\* The touch switch button and player 2's K_u: Player.switch_weapon.
TouchSwitch ==
  /\ ~crashed
  /\ UNCHANGED exceptWeapon
  /\ player' = switch_weapon(player)
  /\ call' = "none" /\ ret' = NoneRet /\ flag' = FALSE /\ spawned' = "nothing"
  /\ reload_log' = LogKeep(reload_log, player)
  /\ UNCHANGED crashed

\* K_RETURN: knife attack, only with a melee weapon equipped.
KeyReturn ==
  /\ ~crashed
  /\ UNCHANGED exceptWeapon
  /\ weapon(player).melee
  /\ LET r == shoot(player)
     IN  /\ player' = r.p
         /\ ret' = r.ret
         /\ spawned' = IF r.ret.kind = "melee" THEN "melee_attack" ELSE "nothing"
  /\ call' = "shoot" /\ flag' = FALSE
  /\ reload_log' = LogKeep(reload_log, player)
  /\ UNCHANGED crashed

(***************************************************************************)
(* MOUSEBUTTONDOWN, left button: the branch is chosen by the weapon's      *)
(* flags and every branch calls shoot().  The grenade and smoke branches   *)
(* subscript the result (result["x"]); a Bullet is not subscriptable, so   *)
(* a Bullet in those branches raises TypeError out of the main loop.       *)
(***************************************************************************)
MouseDown ==
  /\ ~crashed
  /\ UNCHANGED exceptWeapon
  /\ LET w == weapon(player)
         r == shoot(player)
     IN  /\ player' = r.p
         /\ ret' = r.ret
         /\ IF w.grenade
            THEN IF r.ret.kind = "None"
                 THEN spawned' = "nothing" /\ crashed' = FALSE
                 ELSE IF r.ret.kind = "grenade"
                      THEN spawned' = "Grenade" /\ crashed' = FALSE
                      ELSE spawned' = "nothing" /\ crashed' = TRUE
            ELSE IF w.smoke_grenade
            THEN IF r.ret.kind = "None"
                 THEN spawned' = "nothing" /\ crashed' = FALSE
                 ELSE IF r.ret.kind = "grenade"
                      THEN spawned' = "SmokeGrenade" /\ crashed' = FALSE
                      ELSE spawned' = "nothing" /\ crashed' = TRUE
            ELSE IF w.melee
            THEN /\ spawned' = IF r.ret.kind = "melee" THEN "melee_attack" ELSE "nothing"
                 /\ crashed' = FALSE
            ELSE /\ spawned' = IF r.ret.kind # "None" THEN "Bullet" ELSE "nothing"
                 /\ crashed' = FALSE
  /\ call' = "shoot" /\ flag' = FALSE
  /\ reload_log' = LogKeep(reload_log, player)

\* Continuous fire while the button is held: not for melee, grenade, smoke.
MouseHeld ==
  /\ ~crashed
  /\ UNCHANGED exceptWeapon
  /\ ~weapon(player).melee /\ ~weapon(player).grenade /\ ~weapon(player).smoke_grenade
  /\ LET r == shoot(player)
     IN  /\ ret' = r.ret
         /\ IF r.ret.kind # "None"
            THEN player' = add_gun_effects(r.p) /\ spawned' = "Bullet"
            ELSE player' = r.p /\ spawned' = "nothing"
  /\ call' = "shoot" /\ flag' = FALSE
  /\ reload_log' = LogKeep(reload_log, player)
  /\ UNCHANGED crashed

(***************************************************************************)
(* One frame of Game.update in the playing state, as far as the player's   *)
(* weapon state goes: the mobile melee shot, Player.update, update_recoil,  *)
(* update_reload.  The next statement of Game.update calls                 *)
(* Player.update_switch_cooldown, a method the source does not define; the *)
(* frame is followed here as the calls before it leave the player.         *)
(***************************************************************************)
Frame ==
  /\ ~crashed
  /\ UNCHANGED exceptWeapon
  /\ \E mobile_fire \in BOOLEAN :
       LET s  == IF mobile_fire /\ weapon(player).melee
                 THEN shoot(player) ELSE [p |-> player, ret |-> NoneRet]
           p1 == update_recoil(update(s.p))
           r  == update_reload(p1)
       IN  /\ player' = r.p
           /\ flag' = r.flag
           /\ ret' = s.ret
           /\ spawned' = IF s.ret.kind = "melee" THEN "melee_attack" ELSE "nothing"
           /\ reload_log' = LogTick(reload_log, p1)
  /\ call' = "frame"
  /\ UNCHANGED crashed

WeaponInit ==
  /\ player = PlayerInit
  /\ ret = NoneRet
  /\ flag = FALSE
  /\ call = "none"
  /\ spawned = "nothing"
  /\ crashed = FALSE
  /\ reload_log = NoReload

WeaponIdle == WeaponInit

\* A group of variables holds Absent in the specifications that do not
\* exercise it: no object of that part of the game is under observation.
Absent == << >>

ShotgunIdle == bullet = Absent /\ hit_damage = Absent

NoGame ==
  [state |-> "menu", difficulty |-> "easy", robots |-> << >>, grenades |-> << >>,
   explosions |-> << >>, health |-> 0, player_dist |-> 0, coins |-> 0,
   has_shotgun |-> FALSE, has_rpg |-> FALSE, shop_prompted |-> FALSE,
   kills |-> 0, score |-> 0, thrown |-> 0]

NoGun ==
  [name |-> "", damage |-> 0, bullet_speed |-> 0,
   shotgun |-> FALSE, freeze |-> FALSE, electric |-> FALSE]

NoArena ==
  [state |-> "menu", game_mode |-> "solo", difficulty |-> "easy",
   robots |-> << >>, kills |-> 0, score |-> 0, coins |-> 0,
   has_shotgun |-> FALSE, has_rpg |-> FALSE, shop_prompted |-> FALSE]

NoHit ==
  [n |-> 0, weapon |-> NoGun, target |-> 0, headshot |-> FALSE, damage |-> 0,
   frozen |-> [id \in 1..MaxHitRobots |-> [n |-> 0, calls |-> 0]]]

HitIdle == arena = Absent /\ hit_log = Absent

\* Game.__init__: wave 1 of 5, timer 0, no boss.
NoWave ==
  [state |-> "menu", game_mode |-> "solo", difficulty |-> "easy",
   current_wave |-> 1, max_waves |-> 5, wave_complete_timer |-> 0,
   robots |-> 0, boss |-> FALSE]

WaveIdle == wave = Absent /\ wave_log = Absent

\* Game.__init__ and reset_game in solo mode: one player, no winner.
NoTeam ==
  [state |-> "menu", game_mode |-> "solo", player |-> [health |-> 0],
   player2 |-> [present |-> FALSE, health |-> 0], pvp_winner |-> "None"]

NoTeamLog == [source |-> "none", lethal1 |-> FALSE, lethal2 |-> FALSE]

TeamIdle == team = Absent /\ team_log = Absent

\* No bullet, no grenade, no frame run.
NoLoop == [state |-> "menu", bullets |-> << >>, grenades |-> << >>]

NoLoopLog == [frames |-> 0, phases |-> << >>]

LoopIdle == loop = Absent /\ loop_log = Absent

\* No robot, no boss, no bullet.
NoStrike ==
  [ar |-> NoArena, boss |-> [present |-> FALSE, health |-> 0], bullets |-> 0]

NoStrikeLog ==
  [n |-> 0, weapon |-> NoGun, over |-> {}, over_boss |-> FALSE, damage |-> 0]

StrikeIdle == strike = Absent /\ strike_log = Absent

\* Game.reset_game and a new Player: no coins, nothing bought, no prompt.
NoShop ==
  [state |-> "menu", game_mode |-> "solo", difficulty |-> "easy", coins |-> 0,
   has_shotgun |-> FALSE, has_rpg |-> FALSE, shop_prompted |-> FALSE]

NoShopLog == [shotgun |-> 0, rpg |-> 0]

ShopIdle == shop = Absent /\ shop_log = Absent

NoBotLog ==
  [updated |-> FALSE, dist |-> 0, smoke |-> FALSE, act |-> "none",
   victim_dist |-> 0, damage |-> 0, bullets |-> << >>, gap |-> -1, hits |-> 0]

BotIdle == bot = Absent /\ bot_log = Absent

BossIdle == boss = Absent /\ boss_log = Absent

FireIdle == fire = Absent /\ fire_log = Absent

CombatIdle == combat = Absent

\* No grenade under observation.
FuseIdle == fuse = Absent

GrenadeIdle == game = Absent /\ blast_log = Absent

vars == << weaponVars, shotgunVars, grenadeVars, fuseVars, hitVars, waveVars, teamVars, loopVars, strikeVars, shopVars, botVars, bossVars, fireVars, combatVars >>

Init == WeaponInit /\ ShotgunIdle /\ GrenadeIdle /\ FuseIdle /\ HitIdle /\ WaveIdle /\ TeamIdle /\ CombatIdle /\ FireIdle /\ BossIdle /\ BotIdle /\ ShopIdle /\ StrikeIdle /\ LoopIdle

Next ==
  \/ KeyReload
  \/ KeyNextWeapon
  \/ KeyPrevWeapon
  \/ KeyNumber
  \/ TouchSwitch
  \/ KeyReturn
  \/ MouseDown
  \/ MouseHeld
  \/ Frame

Spec == Init /\ [][Next]_vars


----------------------------------------------------------------------------
(* Bullet flight and Bullet.get_damage (specification SpecShotgun).        *)

MaxDist == 160

\* The two Shotgun entries a player can hold: the one Player.__init__
\* appends when the save has the shotgun, and the one unlock_shotgun
\* appends in the shop.
ShotgunSaved ==
  [name |-> "Shotgun", ammo |-> 8, max_ammo |-> 8, reloads |-> 4,
   fire_rate |-> 35, damage |-> 65, bullet_speed |-> 18, melee |-> FALSE,
   grenade |-> FALSE, smoke_grenade |-> FALSE, no_reload |-> FALSE,
   shotgun |-> TRUE, recoil |-> 6, reload_time |-> 120]

ShotgunShop ==
  [name |-> "Shotgun", ammo |-> 30, max_ammo |-> 30, reloads |-> 3,
   fire_rate |-> 30, damage |-> 50, bullet_speed |-> 12, melee |-> FALSE,
   grenade |-> FALSE, smoke_grenade |-> FALSE, no_reload |-> FALSE,
   shotgun |-> TRUE, recoil |-> 2, reload_time |-> 60]

\* Bullet.__init__ followed by the assignments of Player.shoot: the bullet
\* starts at its start point (dist 0) with 180 frames to live.
BulletInit(w) ==
  [weapon_type |-> NewBullet(w).weapon_type,
   is_shotgun |-> NewBullet(w).is_shotgun,
   speed |-> NewBullet(w).speed,
   base_damage |-> NewBullet(w).damage,
   damage |-> NewBullet(w).damage,
   dist |-> 0,
   lifetime |-> 180]

\* Bullet.update: one step of speed along the angle, so the distance from
\* the start point grows by speed; lifetime counts down.
Bullet_update(b) == [b EXCEPT !.dist = @ + b.speed, !.lifetime = @ - 1]

\* Variant of get_damage whose falloff runs on past the effective range.
get_damage_noRangeClamp(b) ==
  IF ~b.is_shotgun THEN {b.damage}
  ELSE LET n == b.base_damage * (1500 - 8 * b.dist)
           q == n \div 1500
       IN  IF n % 1500 = 0 /\ b.dist > 0 THEN {q - 1, q} ELSE {q}

(***************************************************************************)
(* Bullet.get_damage: the values the call can return.  For a shotgun       *)
(* pellet nearer than 150 it is int(base_damage * (1 - dist/150 * 0.8)),   *)
(* the truncation of base_damage * (1500 - 8 dist) / 1500; from 150 on it  *)
(* is 10.  The product is computed in floating point from a float          *)
(* distance: where the exact product is an integer the float may fall      *)
(* just below it and truncate to one less (at dist 0 the multiplier is     *)
(* exactly 1.0).                                                           *)
(***************************************************************************)
get_damage(b) ==
  IF ~b.is_shotgun THEN {b.damage}
  ELSE IF b.dist < 150
  THEN LET n == b.base_damage * (1500 - 8 * b.dist)
           q == n \div 1500
       IN  IF n % 1500 = 0 /\ b.dist > 0 THEN {q - 1, q} ELSE {q}
  ELSE {10}

\* A bullet of the save's shotgun, of the shop's shotgun or of the rifle,
\* at any whole distance up to MaxDist from its start point.
ShotgunInit ==
  /\ \E w \in {ShotgunSaved, ShotgunShop, WeaponCatalog[1]} :
       \E d \in 0..MaxDist : bullet = [BulletInit(w) EXCEPT !.dist = d]
  /\ hit_damage = -1

\* Game.update, bullet loop: the bullet advances one frame.
BulletFlies ==
  /\ bullet.lifetime > 0
  /\ bullet.dist + bullet.speed <= MaxDist
  /\ bullet' = Bullet_update(bullet)
  /\ hit_damage' = -1
  /\ UNCHANGED exceptShotgun

\* The bullet strikes a target: get_damage() is evaluated where it is.
BulletHits ==
  /\ bullet.lifetime > 0
  /\ \E d \in get_damage(bullet) : hit_damage' = d
  /\ bullet' = [bullet EXCEPT !.lifetime = 0]
  /\ UNCHANGED exceptShotgun

NextShotgun == BulletFlies \/ BulletHits

InitShotgun == WeaponIdle /\ ShotgunInit /\ GrenadeIdle /\ FuseIdle /\ HitIdle /\ WaveIdle /\ TeamIdle /\ CombatIdle /\ FireIdle /\ BossIdle /\ BotIdle /\ ShopIdle /\ StrikeIdle /\ LoopIdle

SpecShotgun == InitShotgun /\ [][NextShotgun]_vars

----------------------------------------------------------------------------
(* Grenades and explosions in Game.update (specification SpecGrenade).     *)

MaxFuse == 2
MaxGrenades == 2
MaxRobots == 1
MaxBlastLife == 3
MaxBlastDist == 152

\* DIFFICULTY, the fields the grenade loop reads.  Robots are spawned only
\* by next_wave, which runs only on "impossible"; on the other
\* difficulties start_game leaves the robot list empty.
DIFFICULTY ==
  [easy       |-> [count |-> 8, health |-> 40, speed |-> 2, damage |-> 5,
                   fire_rate |-> 90, points |-> 100, coins |-> 1],
   hard       |-> [count |-> 25, health |-> 100, speed |-> 4, damage |-> 15,
                   fire_rate |-> 40, points |-> 300, coins |-> 8],
   impossible |-> [count |-> 10, health |-> 120, speed |-> 5, damage |-> 20,
                   fire_rate |-> 30, points |-> 500, coins |-> 15]]

\* Player health set by start_game.
StartHealth(difficulty) == IF difficulty = "impossible" THEN 10000 ELSE 100

\* self.lifetime of a new Grenade.
Grenade_lifetime == 90

\* Grenade.__init__; id stands for the object's identity.
GrenadeInit(id) ==
  [id |-> id, lifetime |-> Cap(Grenade_lifetime, MaxFuse), damage |-> 150,
   explosion_radius |-> 150, exploded |-> FALSE]

\* Grenade.update, the fuse.
Grenade_update(g) == [g EXCEPT !.lifetime = @ - 1]

\* A variant of should_explode that does not look at the exploded flag.
should_explode_ignoresFlag(g) == g.lifetime <= 0

should_explode(g) == g.lifetime <= 0 /\ ~g.exploded

\* Explosion.__init__ / update / is_done.
ExplosionInit(g) ==
  [of |-> g.id, max_radius |-> g.explosion_radius, current_radius |-> 10,
   lifetime |-> Cap(20, MaxBlastLife), growing |-> TRUE]

Explosion_update(e) ==
  LET r == IF e.growing THEN e.current_radius + 15 ELSE e.current_radius
  IN  [e EXCEPT !.current_radius = r,
                !.growing = e.growing /\ r < e.max_radius,
                !.lifetime = @ - 1]

is_done(e) == e.lifetime <= 0

\* int(damage * (1 - dist / radius * 0.5) * share), share being 1/den_share
\* (1 for a robot, 1/2 for a player), for dist < radius.  The exact value is
\* damage * (2 radius - dist) / (2 radius den_share); int() truncates it.
\* The product is computed in floating point: where the exact value is an
\* integer and dist > 0 the float may fall just below it, and int() then
\* returns one less (150 at dist 44 gives 127, not 128).  The result is the
\* set of values int() can return.
explosion_damage_reachesRim(damage, radius, dist, den_share) ==
  IF dist <= radius
  THEN LET n == damage * (2 * radius - dist)
           den == 2 * radius * den_share
           q == n \div den
       IN  IF n % den = 0 /\ dist > 0 THEN {q - 1, q} ELSE {q}
  ELSE {}

explosion_damage(damage, radius, dist, den_share) ==
  IF dist < radius
  THEN LET n == damage * (2 * radius - dist)
           den == 2 * radius * den_share
           q == n \div den
       IN  IF n % den = 0 /\ dist > 0 THEN {q - 1, q} ELSE {q}
  ELSE {}

SetMax(S) == CHOOSE x \in S : \A y \in S : y <= x
SetMin(S) == CHOOSE x \in S : \A y \in S : x <= y

\* The value int() returns for one target; low says the float fell short.
Pick(S, low) == IF low THEN SetMin(S) ELSE SetMax(S)

RECURSIVE SeqFilterOut(_, _)
\* list.remove of the object with identity id.
SeqFilterOut(s, id) ==
  IF s = << >> THEN << >>
  ELSE IF Head(s).id = id THEN Tail(s)
  ELSE << Head(s) >> \o SeqFilterOut(Tail(s), id)

RECURSIVE SeqReplace(_, _)
\* the list with the object of x's identity in its new state x.
SeqReplace(s, x) ==
  IF s = << >> THEN << >>
  ELSE IF Head(s).id = x.id THEN << x >> \o Tail(s)
  ELSE << Head(s) >> \o SeqReplace(Tail(s), x)

LogHit(log, g, target, dist, damage) ==
  [log EXCEPT !.hits[g.id] =
     Append(@, [target |-> target, dist |-> dist, damage |-> damage])]

\* The player is target 0, the robots are targets 1..MaxRobots.
PlayerTarget == 0

\* "Damage robots in explosion radius": for robot in self.robots[:].
RECURSIVE DamageRobots(_, _, _, _, _)
DamageRobots(gm, log, g, snapshot, low) ==
  IF snapshot = << >> THEN [game |-> gm, log |-> log]
  ELSE
    LET robot == Head(snapshot)
        S == explosion_damage(g.damage, g.explosion_radius, robot.dist, 1)
    IN  IF S = {} THEN DamageRobots(gm, log, g, Tail(snapshot), low)
        ELSE
          LET damage == Pick(S, robot.id \in low)
              hurt == [robot EXCEPT !.health = @ - damage]
              log2 == LogHit(log, g, robot.id, robot.dist, damage)
              coins == gm.coins + DIFFICULTY[gm.difficulty].coins
              to_shop ==
                \/ coins >= 10 /\ ~gm.has_shotgun /\ ~gm.shop_prompted
                \/ coins >= 50 /\ ~gm.has_rpg /\ gm.has_shotgun /\ ~gm.shop_prompted
              gm2 ==
                IF hurt.health <= 0
                THEN [gm EXCEPT !.robots = SeqFilterOut(@, robot.id),
                                !.kills = @ + 1,
                                !.score = @ + DIFFICULTY[gm.difficulty].points,
                                !.coins = coins,
                                !.state = IF to_shop THEN "shop" ELSE @]
                ELSE [gm EXCEPT !.robots = SeqReplace(@, hurt)]
          IN  DamageRobots(gm2, log2, g, Tail(snapshot), low)

\* "Damage player 1 if in explosion radius" (single-player mode).
DamagePlayer(gm, log, g, low) ==
  LET S == explosion_damage(g.damage, g.explosion_radius, gm.player_dist, 2)
  IN  IF S = {} THEN [game |-> gm, log |-> log]
      ELSE
        LET damage == Pick(S, PlayerTarget \in low)
            health == gm.health - damage
        IN  [game |-> [gm EXCEPT !.health = health,
                                 !.state = IF health <= 0 THEN "gameover" ELSE @],
             log |-> LogHit(log, g, PlayerTarget, gm.player_dist, damage)]

\* A variant of Detonate that leaves the grenade armed and in the list.
Detonate_keepsGrenade(gm, log, g, low) ==
  LET boom == [gm EXCEPT !.explosions = Append(@, ExplosionInit(g))]
      log1 == [log EXCEPT !.made[g.id] = @ + 1]
      r == DamageRobots(boom, log1, g, boom.robots, low)
      p == DamagePlayer(r.game, r.log, g, low)
  IN  [game |-> [p.game EXCEPT !.grenades = SeqReplace(@, g)],
       log |-> p.log]

\* The body of "if grenade.should_explode()": the Explosion, the damage,
\* then exploded = True and the removal from self.grenades.
Detonate(gm, log, g, low) ==
  LET boom == [gm EXCEPT !.explosions = Append(@, ExplosionInit(g))]
      log1 == [log EXCEPT !.made[g.id] = @ + 1]
      r == DamageRobots(boom, log1, g, boom.robots, low)
      p == DamagePlayer(r.game, r.log, g, low)
  IN  [game |-> [p.game EXCEPT !.grenades = SeqFilterOut(@, g.id)],
       log |-> p.log]

\* "Update grenades": for grenade in self.grenades[:].
RECURSIVE UpdateGrenades(_, _, _, _)
UpdateGrenades(gm, log, snapshot, low) ==
  IF snapshot = << >> THEN [game |-> gm, log |-> log]
  ELSE
    LET g == Grenade_update(Head(snapshot))
        r == IF should_explode(g)
             THEN Detonate(gm, log, g, low)
             ELSE [game |-> [gm EXCEPT !.grenades = SeqReplace(@, g)],
                   log |-> log]
    IN  UpdateGrenades(r.game, r.log, Tail(snapshot), low)

\* "Update explosions": for explosion in self.explosions[:].
RECURSIVE UpdateExplosions(_)
UpdateExplosions(es) ==
  IF es = << >> THEN << >>
  ELSE LET e == Explosion_update(Head(es))
       IN  (IF is_done(e) THEN << >> ELSE << e >>) \o UpdateExplosions(Tail(es))

\* "Check win conditions" at the end of Game.update.  wave_over stands for
\* current_wave = max_waves with the boss dead; the spawn of a further wave
\* is not followed.
CheckWin(gm, wave_over) ==
  IF gm.robots = << >> /\ (gm.difficulty # "impossible" \/ wave_over)
  THEN [gm EXCEPT !.state = "gameover"]
  ELSE gm

\* The targets for which int() has two possible results when a grenade of
\* the list goes off in this frame.
FloatTargets(gm) ==
  {t \in 0..MaxRobots :
     \E i \in 1..Len(gm.grenades) :
       LET g == gm.grenades[i]
       IN  /\ g.lifetime <= 1
           /\ \/ /\ t = PlayerTarget
                 /\ Cardinality(explosion_damage(g.damage, g.explosion_radius,
                                                 gm.player_dist, 2)) = 2
              \/ \E j \in 1..Len(gm.robots) :
                   /\ gm.robots[j].id = t
                   /\ Cardinality(explosion_damage(g.damage, g.explosion_radius,
                                                   gm.robots[j].dist, 1)) = 2}

\* MOUSEBUTTONDOWN with the Grenade equipped and shoot() returning a throw.
ThrowGrenade ==
  /\ game.state = "playing"
  /\ game.thrown < MaxGrenades
  /\ LET id == game.thrown + 1
     IN  /\ game' = [game EXCEPT !.grenades = Append(@, GrenadeInit(id)),
                                 !.thrown = id]
         /\ blast_log' = [made |-> Append(blast_log.made, 0),
                          hits |-> Append(blast_log.hits, << >>)]
  /\ UNCHANGED exceptGrenade

\* One frame of Game.update in the playing state: the grenade loop, the
\* explosion loop, the win condition.
UpdateFrame ==
  /\ game.state = "playing"
  /\ \E wave_over \in BOOLEAN,
        low \in SUBSET FloatTargets(game) :
       LET r == UpdateGrenades(game, blast_log, game.grenades, low)
           e == [r.game EXCEPT !.explosions = UpdateExplosions(@)]
       IN  /\ game' = CheckWin(e, wave_over)
           /\ blast_log' = r.log
  /\ UNCHANGED exceptGrenade

\* Shop, key 1: buy the shotgun if affordable, back to play.
ShopBuyShotgun ==
  /\ game.state = "shop"
  /\ game' = IF ~game.has_shotgun /\ game.coins >= 10
             THEN [game EXCEPT !.coins = @ - 10, !.has_shotgun = TRUE,
                               !.state = "playing"]
             ELSE [game EXCEPT !.state = "playing"]
  /\ UNCHANGED << blast_log, exceptGrenade >>

\* Shop, Escape or N: close and stop prompting.
ShopClose ==
  /\ game.state = "shop"
  /\ game' = [game EXCEPT !.shop_prompted = TRUE, !.state = "playing"]
  /\ UNCHANGED << blast_log, exceptGrenade >>

\* start_game(self.difficulty), from key R on the game-over screen.
start_game(gm, difficulty) ==
  [gm EXCEPT !.difficulty = difficulty, !.robots = << >>, !.grenades = << >>,
             !.explosions = << >>, !.score = 0, !.kills = 0,
             !.health = StartHealth(difficulty), !.state = "playing"]

Restart ==
  /\ game.state = "gameover"
  /\ game' = start_game(game, game.difficulty)
  /\ UNCHANGED << blast_log, exceptGrenade >>

\* Distances of the targets from the point where the grenades come to rest.
CoarseDists == {0, 150}
PlayerDists == {0, 150}

\* A game in play: on "impossible" with a wave of robots on the map, on
\* "hard" with none.
WaveRobots(d1, ds) ==
  [i \in 1..MaxRobots |->
     [id |-> i, health |-> DIFFICULTY["impossible"].health,
      dist |-> IF i = 1 THEN d1 ELSE ds[i]]]

InitGrenade ==
  /\ WeaponIdle
  /\ ShotgunIdle
  /\ FuseIdle
  /\ HitIdle
  /\ WaveIdle /\ TeamIdle /\ CombatIdle /\ FireIdle /\ BossIdle /\ BotIdle /\ ShopIdle /\ StrikeIdle /\ LoopIdle
  /\ blast_log = [made |-> << >>, hits |-> << >>]
  /\ \E difficulty \in {"hard", "impossible"}, pd \in PlayerDists :
       \E d1 \in 0..MaxBlastDist, ds \in [2..MaxRobots -> CoarseDists] :
         /\ difficulty = "hard" => d1 = 0 /\ \A i \in 2..MaxRobots : ds[i] = 0
         /\ game = [NoGame EXCEPT
                      !.state = "playing",
                      !.difficulty = difficulty,
                      !.robots = IF difficulty = "impossible"
                                 THEN WaveRobots(d1, ds) ELSE << >>,
                      !.health = StartHealth(difficulty),
                      !.player_dist = pd]

NextGrenade ==
  \/ ThrowGrenade
  \/ UpdateFrame
  \/ ShopBuyShotgun
  \/ ShopClose
  \/ Restart

SpecGrenade == InitGrenade /\ [][NextGrenade]_vars

----------------------------------------------------------------------------
(* The fuse of one grenade at its true length (specification SpecFuse).    *)

MaxFuseCalls == 110

\* One iteration of the grenade loop on the grenade while it is in
\* self.grenades: update(), should_explode(), and on a true answer
\* exploded = True and the removal from the list.
FuseTick ==
  /\ fuse.in_list
  /\ fuse.updates < MaxFuseCalls
  /\ LET g == Grenade_update(fuse)
         answer == should_explode(g)
     IN  fuse' = [g EXCEPT !.updates = @ + 1,
                           !.answer = answer,
                           !.trues = IF answer THEN @ + 1 ELSE @,
                           !.exploded = IF answer THEN TRUE ELSE @,
                           !.in_list = ~answer]
  /\ UNCHANGED exceptFuse

\* update() and should_explode() called on the grenade after the loop has
\* dropped it; nothing re-arms it.
FuseLateUpdate ==
  /\ ~fuse.in_list
  /\ fuse.updates < MaxFuseCalls
  /\ LET g == Grenade_update(fuse)
         answer == should_explode(g)
     IN  fuse' = [g EXCEPT !.updates = @ + 1,
                           !.answer = answer,
                           !.trues = IF answer THEN @ + 1 ELSE @]
  /\ UNCHANGED exceptFuse

InitFuse ==
  /\ WeaponIdle /\ ShotgunIdle /\ GrenadeIdle /\ HitIdle /\ WaveIdle /\ TeamIdle /\ CombatIdle /\ FireIdle /\ BossIdle /\ BotIdle /\ ShopIdle /\ StrikeIdle /\ LoopIdle
  /\ fuse = [lifetime |-> Grenade_lifetime, exploded |-> FALSE, in_list |-> TRUE,
             updates |-> 0, trues |-> 0, answer |-> FALSE]

NextFuse == FuseTick \/ FuseLateUpdate

SpecFuse == InitFuse /\ [][NextFuse]_vars

----------------------------------------------------------------------------
(* Player bullets striking robots, and Robot.update's freeze handling       *)
(* (specification SpecHit).  The block of Game.update that resolves bullet  *)
(* hits stands after the unconditional return of line 6277; it is followed  *)
(* here as the statements it consists of.                                  *)

\* The weapon entries whose bullets the hit block treats specially, with
\* the keys Player.shoot copies to the Bullet and the class flags of the
\* entry: the entry Player.__init__ appends when the save holds the weapon
\* and the entry the shop's unlock_* method appends.
FreezeRaySaved ==
  [name |-> "Freeze Ray", damage |-> 14, bullet_speed |-> 18,
   shotgun |-> FALSE, freeze |-> TRUE, electric |-> FALSE]

FreezeShop ==
  [name |-> "Freeze", damage |-> 10, bullet_speed |-> 15,
   shotgun |-> FALSE, freeze |-> TRUE, electric |-> FALSE]

ElectricGunSaved ==
  [name |-> "Electric Gun", damage |-> 30, bullet_speed |-> 25,
   shotgun |-> FALSE, freeze |-> FALSE, electric |-> TRUE]

ElectricShop ==
  [name |-> "Electric", damage |-> 25, bullet_speed |-> 20,
   shotgun |-> FALSE, freeze |-> FALSE, electric |-> TRUE]

SniperSaved ==
  [name |-> "Sniper", damage |-> 180, bullet_speed |-> 35,
   shotgun |-> FALSE, freeze |-> FALSE, electric |-> FALSE]

RifleGun ==
  [name |-> WeaponCatalog[1].name, damage |-> WeaponCatalog[1].damage,
   bullet_speed |-> WeaponCatalog[1].bullet_speed,
   shotgun |-> FALSE, freeze |-> FALSE, electric |-> FALSE]

HitWeapons ==
  {RifleGun, SniperSaved, FreezeRaySaved, FreezeShop, ElectricGunSaved, ElectricShop}

\* robot.freeze_timer = 120, and the chain range of 150.
FreezeDuration == 120
ChainRange == 150

\* Speeds are held in thousandths.  Robot.__init__: the difficulty's speed
\* times the factor of the bot type (knife 1.2, throwing_knife 0.9,
\* dual_pistol 1.1); spawn_robots hands out the types in turn.
BotType(i) == << "gun", "knife", "throwing_knife", "dual_pistol" >>[((i - 1) % 4) + 1]

RobotInit(id, pos, difficulty) ==
  LET t == BotType(id)
      factor == IF t = "knife" THEN 12 ELSE IF t = "throwing_knife" THEN 9
                ELSE IF t = "dual_pistol" THEN 11 ELSE 10
      speed == DIFFICULTY[difficulty].speed * 100 * factor
  IN  [id |-> id, pos |-> pos, health |-> DIFFICULTY[difficulty].health,
       speed |-> speed, base_speed |-> speed, freeze_timer |-> 0]

\* A variant of Robot_update that thaws the robot in the update that brings
\* the countdown to 0.
Robot_update_thawsEarly(r) ==
  IF r.freeze_timer > 1
  THEN [r EXCEPT !.freeze_timer = @ - 1, !.speed = (r.base_speed * 3) \div 10]
  ELSE [r EXCEPT !.freeze_timer = 0, !.speed = r.base_speed]

\* Robot.update, the freeze handling at its head.
Robot_update(r) ==
  IF r.freeze_timer > 0
  THEN [r EXCEPT !.freeze_timer = @ - 1, !.speed = (r.base_speed * 3) \div 10]
  ELSE [r EXCEPT !.speed = r.base_speed]

Abs(x) == IF x < 0 THEN -x ELSE x

\* "Chain lightning": every other robot of the list nearer than the chain
\* range to the robot hit takes damage // 2; the result of take_damage is
\* not looked at.
ChainLightning(robots, robot, damage) ==
  [i \in 1..Len(robots) |->
     IF robots[i].id # robot.id /\ Abs(robot.pos - robots[i].pos) < ChainRange
     THEN [robots[i] EXCEPT !.health = @ - (damage \div 2)]
     ELSE robots[i]]

\* The body of "if is_headshot or body_hit" for robot number i of the list:
\* the damage, the special effects by bullet.weapon_type, take_damage and
\* the crediting of a kill.
RobotHit(ar, b, i, is_headshot, bullet_damage) ==
  LET damage == IF b.weapon_type = "Sniper"
                THEN (IF is_headshot THEN 150 ELSE 50)
                ELSE bullet_damage
      frozen == IF b.weapon_type = "Freeze"
                THEN [ar.robots EXCEPT ![i].freeze_timer = Cap(FreezeDuration, MaxFreeze)]
                ELSE ar.robots
      chained == IF b.weapon_type = "Electric"
                 THEN ChainLightning(frozen, frozen[i], damage)
                 ELSE frozen
      hurt == [chained EXCEPT ![i].health = @ - damage]
      bonus == IF is_headshot THEN 2 ELSE 1
      coins == ar.coins + DIFFICULTY[ar.difficulty].coins
      to_shop ==
        \/ coins >= 10 /\ ~ar.has_shotgun /\ ~ar.shop_prompted
        \/ coins >= 50 /\ ~ar.has_rpg /\ ar.has_shotgun /\ ~ar.shop_prompted
  IN  IF hurt[i].health <= 0
      THEN IF ar.game_mode # "pvp"
           THEN [ar EXCEPT !.robots = SeqFilterOut(hurt, hurt[i].id),
                           !.kills = @ + 1,
                           !.score = @ + DIFFICULTY[ar.difficulty].points * bonus,
                           !.coins = coins,
                           !.state = IF to_shop THEN "shop" ELSE @]
           ELSE [ar EXCEPT !.robots = SeqFilterOut(hurt, hurt[i].id),
                           !.kills = @ + 1]
      ELSE [ar EXCEPT !.robots = hurt]

OnMap(robots, id) == \E k \in 1..Len(robots) : robots[k].id = id

RobotById(robots, id) == robots[CHOOSE k \in 1..Len(robots) : robots[k].id = id]

\* A player bullet of weapon w overlaps robot number i, the first robot of
\* the list standing there (the loop breaks at the first robot hit).
BulletHitsRobot ==
  /\ arena.state = "playing"
  /\ hit_log.n < MaxHits
  /\ \E w \in HitWeapons, i \in 1..Len(arena.robots), is_headshot \in BOOLEAN :
       /\ is_headshot => w.name = "Sniper"
       /\ \A j \in 1..(i - 1) : arena.robots[j].pos # arena.robots[i].pos
       /\ \E bullet_damage \in get_damage(BulletInit(w)) :
            /\ arena' = RobotHit(arena, BulletInit(w), i, is_headshot, bullet_damage)
            /\ hit_log' =
                 [n |-> hit_log.n + 1, weapon |-> w,
                  target |-> arena.robots[i].id, headshot |-> is_headshot,
                  damage |-> IF w.name = "Sniper"
                             THEN (IF is_headshot THEN 150 ELSE 50)
                             ELSE bullet_damage,
                  frozen |->
                    LET id == arena.robots[i].id
                    IN  IF OnMap(arena'.robots, id)
                             /\ RobotById(arena'.robots, id).freeze_timer
                                  # arena.robots[i].freeze_timer
                        THEN [hit_log.frozen EXCEPT
                                ![id] = [n |-> RobotById(arena'.robots, id).freeze_timer,
                                         calls |-> 0]]
                        ELSE hit_log.frozen]
  /\ UNCHANGED exceptHit

\* "Update robots": robot.update() for every robot of the list.
RobotsUpdate ==
  /\ arena.state = "playing"
  /\ arena' = [arena EXCEPT !.robots =
                 [i \in 1..Len(arena.robots) |-> Robot_update(arena.robots[i])]]
  /\ hit_log' = [hit_log EXCEPT !.frozen =
                   [id \in 1..MaxHitRobots |->
                      IF hit_log.frozen[id].n > 0
                           /\ hit_log.frozen[id].calls <= hit_log.frozen[id].n
                           /\ OnMap(arena.robots, id)
                      THEN [hit_log.frozen[id] EXCEPT !.calls = @ + 1]
                      ELSE hit_log.frozen[id]]]
  /\ UNCHANGED exceptHit

\* Where the robots stand along a line through the robot hit.
Positions == {0, 149, 150}

InitHit ==
  /\ WeaponIdle /\ ShotgunIdle /\ GrenadeIdle /\ FuseIdle /\ WaveIdle /\ TeamIdle /\ CombatIdle /\ FireIdle /\ BossIdle /\ BotIdle /\ ShopIdle /\ StrikeIdle /\ LoopIdle
  /\ hit_log = NoHit
  /\ \E difficulty \in {"easy", "impossible"},
        pos \in [1..MaxHitRobots -> Positions] :
       /\ pos[1] = 0
       /\ arena = [NoArena EXCEPT
                     !.state = "playing",
                     !.difficulty = difficulty,
                     !.robots = [i \in 1..MaxHitRobots |-> RobotInit(i, pos[i], difficulty)]]

NextHit == BulletHitsRobot \/ RobotsUpdate

SpecHit == InitHit /\ [][NextHit]_vars

----------------------------------------------------------------------------
(* Waves and the win conditions at the end of Game.update (specification   *)
(* SpecWave).  Robots are counted, not told apart.                         *)

\* The settle delay: the next wave starts when wave_complete_timer > 120.
SettleDelay == 120

\* Game.spawn_robots: a fresh list of DIFFICULTY[difficulty].count robots.
spawn_robots(w) == [w EXCEPT !.robots = DIFFICULTY[w.difficulty].count]

\* Game.spawn_boss.
spawn_boss(w) == [w EXCEPT !.boss = TRUE]

\* A variant of next_wave that brings the boss with every wave.
next_wave_bossEveryWave(w) ==
  LET n == [w EXCEPT !.current_wave = @ + 1]
  IN  IF n.current_wave <= n.max_waves
      THEN spawn_boss(spawn_robots(n))
      ELSE n

\* Game.next_wave.
next_wave(w) ==
  LET n == [w EXCEPT !.current_wave = @ + 1]
  IN  IF n.current_wave <= n.max_waves
      THEN IF n.current_wave = n.max_waves
           THEN spawn_boss(spawn_robots(n))
           ELSE spawn_robots(n)
      ELSE n

\* A variant of WinConditions that does not look for the boss.
WinConditions_ignoresBoss(w) ==
  IF w.game_mode \in {"pvp", "online_pvp"} THEN w
  ELSE IF w.difficulty = "impossible"
  THEN IF w.robots = 0
       THEN IF w.current_wave < w.max_waves
            THEN IF w.wave_complete_timer + 1 > Cap(SettleDelay, MaxSettle)
                 THEN next_wave([w EXCEPT !.wave_complete_timer = 0])
                 ELSE [w EXCEPT !.wave_complete_timer = @ + 1]
            ELSE [w EXCEPT !.state = "gameover"]
       ELSE w
  ELSE IF w.robots = 0 THEN [w EXCEPT !.state = "gameover"] ELSE w

\* "Check win conditions", the last statement of Game.update.
WinConditions(w) ==
  IF w.game_mode \in {"pvp", "online_pvp"} THEN w
  ELSE IF w.difficulty = "impossible"
  THEN IF w.robots = 0 /\ ~w.boss
       THEN IF w.current_wave < w.max_waves
            THEN IF w.wave_complete_timer + 1 > Cap(SettleDelay, MaxSettle)
                 THEN next_wave([w EXCEPT !.wave_complete_timer = 0])
                 ELSE [w EXCEPT !.wave_complete_timer = @ + 1]
            ELSE [w EXCEPT !.state = "gameover"]
       ELSE w
  ELSE IF w.robots = 0 THEN [w EXCEPT !.state = "gameover"] ELSE w

\* A frame of Game.update in the playing state, its last statement.
WaveFrame ==
  /\ wave.state = "playing"
  /\ wave' = WinConditions(wave)
  /\ wave_log' = IF wave'.state = "gameover" THEN "won"
                 ELSE IF wave'.current_wave # wave.current_wave THEN "next_wave"
                 ELSE "frame"
  /\ UNCHANGED exceptWave

\* A robot's health falls to 0 or less and it leaves self.robots.
WaveRobotKilled ==
  /\ wave.state = "playing"
  /\ wave.robots > 0
  /\ wave' = [wave EXCEPT !.robots = @ - 1]
  /\ wave_log' = "kill"
  /\ UNCHANGED exceptWave

\* The boss is defeated: self.boss = None.
WaveBossKilled ==
  /\ wave.state = "playing"
  /\ wave.boss
  /\ wave' = [wave EXCEPT !.boss = FALSE]
  /\ wave_log' = "boss_kill"
  /\ UNCHANGED exceptWave

\* A lethal hit to the player ends the match.
WavePlayerKilled ==
  /\ wave.state = "playing"
  /\ wave' = [wave EXCEPT !.state = "gameover"]
  /\ wave_log' = "lost"
  /\ UNCHANGED exceptWave

\* Key R on the game-over screen: start_game(self.difficulty) empties the
\* robot list; it leaves current_wave, the boss and the timer as they are.
WaveRestart ==
  /\ wave.state = "gameover"
  /\ wave' = [wave EXCEPT !.robots = 0, !.state = "playing"]
  /\ wave_log' = "restart"
  /\ UNCHANGED exceptWave

\* K_ESCAPE while playing or on the game-over screen: back to the menu.
WaveEscape ==
  /\ wave.state \in {"playing", "gameover"}
  /\ wave' = [wave EXCEPT !.state = "menu", !.game_mode = "solo"]
  /\ wave_log' = "escape"
  /\ UNCHANGED exceptWave

\* A number key in the menu: game_mode, difficulty and state are assigned,
\* nothing else (keys 1, 3, 4 and 9 of the nine).
WaveMenuSelect ==
  /\ wave.state = "menu"
  /\ \E choice \in { << "solo", "easy" >>, << "solo", "hard" >>,
                      << "solo", "impossible" >>, << "coop", "impossible" >> } :
       wave' = [wave EXCEPT !.game_mode = choice[1], !.difficulty = choice[2],
                            !.state = "playing"]
  /\ wave_log' = "menu"
  /\ UNCHANGED exceptWave

\* Game.__init__ followed by start_game: wave 1 of 5, no robots, no boss.
InitWave ==
  /\ WeaponIdle /\ ShotgunIdle /\ GrenadeIdle /\ FuseIdle /\ HitIdle /\ TeamIdle /\ CombatIdle /\ FireIdle /\ BossIdle /\ BotIdle /\ ShopIdle /\ StrikeIdle /\ LoopIdle
  /\ wave_log = "none"
  /\ \E difficulty \in {"hard", "impossible"} :
       wave = [NoWave EXCEPT !.state = "playing", !.difficulty = difficulty]

NextWave ==
  \/ WaveFrame
  \/ WaveRobotKilled
  \/ WaveBossKilled
  \/ WavePlayerKilled
  \/ WaveRestart
  \/ WaveEscape
  \/ WaveMenuSelect

SpecWave == InitWave /\ [][NextWave]_vars

----------------------------------------------------------------------------
(* Lethal hits to the players in co-op and PvP (specification SpecTeam).   *)
(* Each action is one of the blocks of Game.update that call a player's    *)
(* take_damage, or Player 2's melee handler.  Health is counted in units   *)
(* of which a fresh player has Cap(100, MaxLife); a hit is enabled while   *)
(* the health it leaves is not below -MaxLife.                             *)

PlayerLife == Cap(100, MaxLife)

\* The damage a single hit can deal.
Damages == 1 .. MaxLife

CoopModes == {"coop", "online_coop"}

PvPModes == {"pvp", "online_pvp"}

\* (game_mode is co-op) and self.player2 and self.player2.health > 0
Player2Alive(t) == t.player2.present /\ t.player2.health > 0

\* Player.take_damage on player 1; true result: the co-op test, else gameover.
HitPlayer1(t, damage) ==
  LET h == [t EXCEPT !.player.health = @ - damage]
  IN  IF h.player.health <= 0
      THEN IF h.game_mode \in CoopModes /\ Player2Alive(h)
           THEN h
           ELSE [h EXCEPT !.state = "gameover"]
      ELSE h

\* A variant of HitPlayer2 that ends the match whenever player 2 dies.
HitPlayer2_endsMatch(t, damage) ==
  LET h == [t EXCEPT !.player2.health = @ - damage]
  IN  IF h.player2.health <= 0
      THEN [h EXCEPT !.state = "gameover"]
      ELSE h

\* Player.take_damage on player 2 in co-op; the match goes on while player 1
\* has health > 0.
HitPlayer2(t, damage) ==
  LET h == [t EXCEPT !.player2.health = @ - damage]
  IN  IF h.player2.health <= 0
      THEN IF h.player.health > 0
           THEN h
           ELSE [h EXCEPT !.state = "gameover"]
      ELSE h

\* What a step did: its source, and whose take_damage returned True.
TeamLog(t, n, source) ==
  [source |-> source,
   lethal1 |-> n.player.health # t.player.health /\ n.player.health <= 0,
   lethal2 |-> n.player2.health # t.player2.health /\ n.player2.health <= 0]

\* The hit leaves no health below -MaxLife.
Bounded(n) == n.player.health >= -MaxLife /\ n.player2.health >= -MaxLife

TeamStep(n, source) ==
  /\ team.state = "playing"
  /\ n # team
  /\ Bounded(n)
  /\ team' = n
  /\ team_log' = TeamLog(team, n, source)
  /\ UNCHANGED exceptTeam

\* "Robot bullets hit players": player 1 if the bullet overlaps them, else
\* a living player 2 in co-op.
RobotBulletBlock(t, on1, on2, damage) ==
  IF on1 THEN HitPlayer1(t, damage)
  ELSE IF t.game_mode \in CoopModes /\ Player2Alive(t) /\ on2
  THEN HitPlayer2(t, damage)
  ELSE t

\* The grenade loop's damage to the players inside the explosion radius.
ExplosionBlock(t, in1, in2, damage1, damage2) ==
  LET a == IF in1 THEN HitPlayer1(t, damage1) ELSE t
  IN  IF a.game_mode \in CoopModes /\ Player2Alive(a) /\ in2
      THEN HitPlayer2(a, damage2)
      ELSE a

\* A robot's knife attack: player 1 if in reach, else player 2 in co-op.
KnifeBlock(t, reach1, reach2, damage) ==
  IF reach1 THEN HitPlayer1(t, damage)
  ELSE IF t.game_mode \in CoopModes /\ Player2Alive(t) /\ reach2
  THEN HitPlayer2(t, damage)
  ELSE t

\* Contact with the boss: player 1, then player 2 in co-op.
BossBlock(t, touch1, touch2, damage) ==
  LET a == IF touch1 THEN HitPlayer1(t, damage) ELSE t
  IN  IF a.game_mode \in CoopModes /\ Player2Alive(a) /\ touch2
      THEN HitPlayer2(a, damage)
      ELSE a

\* PvP: a player's bullet overlaps the other player.
PvPBulletBlock(t, owner, damage) ==
  IF t.game_mode \notin PvPModes THEN t
  ELSE IF owner = "player2" /\ t.player.health > 0
  THEN LET h == [t EXCEPT !.player.health = @ - damage]
       IN  IF h.player.health <= 0
           THEN [h EXCEPT !.pvp_winner = "Player 2", !.state = "gameover"]
           ELSE h
  ELSE IF owner # "player2" /\ Player2Alive(t)
  THEN LET h == [t EXCEPT !.player2.health = @ - damage]
       IN  IF h.player2.health <= 0
           THEN [h EXCEPT !.pvp_winner = "Player 1", !.state = "gameover"]
           ELSE h
  ELSE t

\* Game.handle_melee_attack_p2, its PvP part: player 2's knife on player 1.
handle_melee_attack_p2(t, damage) ==
  IF t.game_mode \in PvPModes /\ t.player.health > 0
  THEN LET h == [t EXCEPT !.player.health = @ - damage]
       IN  IF h.player.health <= 0
           THEN [h EXCEPT !.pvp_winner = "Player 2", !.state = "gameover"]
           ELSE h
  ELSE t

\* Robots and the boss come with the waves, which PvP does not have.
RobotBulletHitsPlayer ==
  /\ team.game_mode \in CoopModes
  /\ \E on1, on2 \in BOOLEAN, damage \in Damages :
       TeamStep(RobotBulletBlock(team, on1, on2, damage), "robot_bullet")

ExplosionHitsPlayers ==
  /\ team.game_mode \in CoopModes \cup PvPModes
  /\ \E in1, in2 \in BOOLEAN, damage1, damage2 \in Damages :
       TeamStep(ExplosionBlock(team, in1, in2, damage1, damage2), "explosion")

RobotKnifeAttack ==
  /\ team.game_mode \in CoopModes
  /\ \E reach1, reach2 \in BOOLEAN :
       TeamStep(KnifeBlock(team, reach1, reach2, Cap(15, MaxLife)), "knife")

BossContact ==
  /\ team.game_mode \in CoopModes
  /\ \E touch1, touch2 \in BOOLEAN :
       TeamStep(BossBlock(team, touch1, touch2, Cap(20, MaxLife)), "boss")

PvPBulletHit ==
  /\ team.game_mode \in PvPModes
  /\ \E owner \in {"player1", "player2"}, damage \in Damages :
       TeamStep(PvPBulletBlock(team, owner, damage), "bullet")

Player2Melee ==
  /\ Player2Alive(team)
  /\ \E damage \in Damages :
       TeamStep(handle_melee_attack_p2(team, damage), "melee")

\* Key R on the game-over screen: start_game gives player 1 their health
\* back; player 2 and pvp_winner stay as the last match left them.
TeamRestart ==
  /\ team.state = "gameover"
  /\ team' = [team EXCEPT !.state = "playing", !.player.health = PlayerLife]
  /\ team_log' = [source |-> "restart", lethal1 |-> FALSE, lethal2 |-> FALSE]
  /\ UNCHANGED exceptTeam

\* A match of two players in a co-op or PvP mode, as Game.reset_game sets
\* it up for the mode; player 2 may also be missing (self.player2 = None).
InitTeam ==
  /\ WeaponIdle /\ ShotgunIdle /\ GrenadeIdle /\ FuseIdle /\ HitIdle /\ WaveIdle /\ LoopIdle /\ StrikeIdle /\ ShopIdle /\ BotIdle /\ BossIdle /\ FireIdle /\ CombatIdle
  /\ team_log = NoTeamLog
  /\ \E game_mode \in CoopModes \cup PvPModes, present \in BOOLEAN :
       team = [NoTeam EXCEPT !.state = "playing", !.game_mode = game_mode,
                             !.player.health = PlayerLife,
                             !.player2 = [present |-> present,
                                          health |-> IF present THEN PlayerLife ELSE 0]]

NextTeam ==
  \/ RobotBulletHitsPlayer
  \/ ExplosionHitsPlayers
  \/ RobotKnifeAttack
  \/ BossContact
  \/ PvPBulletHit
  \/ Player2Melee
  \/ TeamRestart

SpecTeam == InitTeam /\ [][NextTeam]_vars

----------------------------------------------------------------------------
(* The simulation core as the main loop runs it (specification SpecCore):  *)
(* handle_events, then Game.update, with every call update makes.          *)

\* The methods of class Player that the frame calls, as the class defines
\* them: update, update_recoil and update_reload.
PlayerMethods == {"update", "update_recoil", "update_reload"}

\* Game.update in the playing state up to the first call that raises:
\* Player.update, update_recoil and update_reload run, and the attribute
\* lookup of update_switch_cooldown raises AttributeError out of the loop.
CoreFrame ==
  /\ ~crashed
  /\ UNCHANGED exceptWeapon
  /\ \E mobile_fire \in BOOLEAN :
       LET s  == IF mobile_fire /\ weapon(player).melee
                 THEN shoot(player) ELSE [p |-> player, ret |-> NoneRet]
           p1 == update_recoil(update(s.p))
           r  == update_reload(p1)
       IN  /\ player' = r.p
           /\ flag' = r.flag
           /\ ret' = s.ret
           /\ spawned' = IF s.ret.kind = "melee" THEN "melee_attack" ELSE "nothing"
           /\ reload_log' = LogTick(reload_log, p1)
  /\ call' = "frame"
  /\ crashed' = ("update_switch_cooldown" \notin PlayerMethods)

NextCore ==
  \/ KeyReload
  \/ KeyNextWeapon
  \/ KeyPrevWeapon
  \/ KeyNumber
  \/ TouchSwitch
  \/ KeyReturn
  \/ MouseDown
  \/ MouseHeld
  \/ CoreFrame

SpecCore == Init /\ [][NextCore]_vars

----------------------------------------------------------------------------
(* The phases of a playing frame (specification SpecLoop): Game.update     *)
(* from "Update bullets" to the statement that leaves it.                  *)

\* The phases of a frame, in the order of the text of Game.update.
AllPhases == << "projectiles", "collision", "grenades", "robots", "robot_fire", "boss", "win_lose" >>

\* Bullet.__init__: lifetime = 180.
BulletLife == Cap(180, MaxBulletLife)

\* Bullet.update, as far as the lifetime goes: one less, and none left for
\* a bullet that has left the map.
BulletTick(lifetime, off_map) == IF off_map THEN 0 ELSE lifetime - 1

\* "Update bullets (simple - no collision)": every bullet is updated and
\* leaves the list when its lifetime is used up; out holds the positions
\* in the list of the bullets that leave the map in this frame.
UpdateBullets(bullets, out) ==
  LET ticked == [i \in DOMAIN bullets |-> BulletTick(bullets[i], i \in out)]
  IN  SelectSeq(ticked, LAMBDA l : l > 0)

\* The phases Game.update runs: the simple bullet loop, the simple robot
\* loop, then `return`; the statements after it are not reached.
PhasesOfFrame == << "projectiles", "robots" >>

\* A bullet joins self.bullets (handle_events, a shot).
LoopFire ==
  /\ loop.state = "playing"
  /\ Len(loop.bullets) < MaxLoopBullets
  /\ loop' = [loop EXCEPT !.bullets = Append(@, BulletLife)]
  /\ UNCHANGED loop_log
  /\ UNCHANGED exceptLoop

\* A grenade joins self.grenades (handle_events, a throw).
LoopThrow ==
  /\ loop.state = "playing"
  /\ Len(loop.grenades) < MaxLoopGrenades
  /\ loop' = [loop EXCEPT !.grenades = Append(@, Cap(Grenade_lifetime, MaxFuse))]
  /\ UNCHANGED loop_log
  /\ UNCHANGED exceptLoop

\* One call of Game.update in the playing state.  Grenade.update is called
\* in the grenade loop only, which stands after the `return`: a frame
\* leaves the grenades as they are.
LoopFrame ==
  /\ loop.state = "playing"
  /\ \E out \in SUBSET (DOMAIN loop.bullets) :
       loop' = [loop EXCEPT !.bullets = UpdateBullets(@, out)]
  /\ loop_log' = [frames |-> Cap(loop_log.frames + 1, MaxLoopFrames),
                  phases |-> PhasesOfFrame]
  /\ UNCHANGED exceptLoop

\* start_game: empty lists, playing.
InitLoop ==
  /\ WeaponIdle /\ ShotgunIdle /\ GrenadeIdle /\ FuseIdle /\ HitIdle /\ WaveIdle /\ TeamIdle /\ CombatIdle /\ FireIdle /\ BossIdle /\ BotIdle /\ ShopIdle /\ StrikeIdle
  /\ loop = [NoLoop EXCEPT !.state = "playing"]
  /\ loop_log = NoLoopLog

NextLoop ==
  \/ LoopFire
  \/ LoopThrow
  \/ LoopFrame

SpecLoop == InitLoop /\ [][NextLoop]_vars

----------------------------------------------------------------------------
(* What one player bullet strikes in solo and co-op (specification         *)
(* SpecStrike): the robot loop with its break, then the boss, then the     *)
(* removal of the bullet.                                                  *)

\* Boss.__init__: health = 1000.
BossHealth == Cap(1000, MaxBossHealth)

\* The weapons whose bullets are followed here.
StrikeWeapons == {RifleGun, ElectricShop}

\* "Check boss": the boss takes the bullet's damage; its death clears
\* self.boss and credits 5000 points and 100 coins.
BossHit(st, damage) ==
  LET health == st.boss.health - damage
  IN  IF health <= 0
      THEN [st EXCEPT !.boss = [present |-> FALSE, health |-> 0],
                      !.ar.kills = @ + 1,
                      !.ar.score = @ + 5000,
                      !.ar.coins = @ + 100]
      ELSE [st EXCEPT !.boss.health = health]

\* The player-bullet branch for one bullet outside PvP: over holds the
\* positions in self.robots of the robots the bullet overlaps, over_boss
\* says whether it overlaps the boss.
PlayerBulletBlock(st, b, over, over_boss, bullet_damage) ==
  IF over # {}
  THEN [st EXCEPT !.ar = RobotHit(st.ar, b, SetMin(over), FALSE, bullet_damage),
                  !.bullets = @ - 1]
  ELSE IF st.boss.present /\ over_boss
  THEN [BossHit(st, bullet_damage) EXCEPT !.bullets = @ - 1]
  ELSE st

\* A shot: a bullet joins self.bullets.
StrikeFire ==
  /\ strike.ar.state = "playing"
  /\ strike.bullets < MaxStrikeBullets
  /\ strike_log.n + strike.bullets < MaxStrikes
  /\ strike' = [strike EXCEPT !.bullets = @ + 1]
  /\ UNCHANGED strike_log
  /\ UNCHANGED exceptStrike

\* The bullet loop comes to a player bullet that overlaps some entity.
PlayerBulletStrikes ==
  /\ strike.ar.state = "playing"
  /\ strike.bullets > 0
  /\ \E w \in StrikeWeapons, over \in SUBSET (1..Len(strike.ar.robots)),
        over_boss \in BOOLEAN :
       /\ \A i, j \in over : strike.ar.robots[i].pos = strike.ar.robots[j].pos
       /\ over # {} \/ (over_boss /\ strike.boss.present)
       /\ \E bullet_damage \in get_damage(BulletInit(w)) :
            /\ strike' = PlayerBulletBlock(strike, BulletInit(w), over, over_boss, bullet_damage)
            /\ strike_log' =
                 [n |-> strike_log.n + 1, weapon |-> w, over |-> over,
                  over_boss |-> over_boss, damage |-> bullet_damage]
  /\ UNCHANGED exceptStrike

\* A wave of MaxStrikeRobots robots on the map, with or without the boss.
InitStrike ==
  /\ WeaponIdle /\ ShotgunIdle /\ GrenadeIdle /\ FuseIdle /\ HitIdle /\ WaveIdle
  /\ TeamIdle /\ CombatIdle /\ FireIdle /\ BossIdle /\ BotIdle /\ ShopIdle /\ LoopIdle
  /\ strike_log = NoStrikeLog
  /\ \E has_boss \in BOOLEAN, pos \in [1..MaxStrikeRobots -> {0, 150}] :
       /\ pos[1] = 0
       /\ strike = [NoStrike EXCEPT
            !.ar = [NoArena EXCEPT
                      !.state = "playing",
                      !.robots = [i \in 1..MaxStrikeRobots |-> RobotInit(i, pos[i], "easy")]],
            !.boss = [present |-> has_boss,
                      health |-> IF has_boss THEN BossHealth ELSE 0]]

NextStrike ==
  \/ StrikeFire
  \/ PlayerBulletStrikes

SpecStrike == InitStrike /\ [][NextStrike]_vars

----------------------------------------------------------------------------
(* The shop prompt (specification SpecShop): the kills that open the shop  *)
(* by themselves and the keys that leave it.                               *)

\* The test after a kill's add_coin: which threshold opens the shop.
ShopPrompt(sh) ==
  IF sh.coins >= 10 /\ ~sh.has_shotgun /\ ~sh.shop_prompted THEN "shotgun"
  ELSE IF sh.coins >= 50 /\ ~sh.has_rpg /\ sh.has_shotgun /\ ~sh.shop_prompted THEN "rpg"
  ELSE "none"

\* A kill outside PvP: add_coin, then the shop prompt.
KillCredit(sh) ==
  LET paid == [sh EXCEPT !.coins = @ + DIFFICULTY[sh.difficulty].coins]
  IN  IF ShopPrompt(paid) # "none" THEN [paid EXCEPT !.state = "shop"] ELSE paid

\* Player.unlock_shotgun.
unlock_shotgun(sh) ==
  IF ~sh.has_shotgun /\ sh.coins >= 10
  THEN [sh EXCEPT !.coins = @ - 10, !.has_shotgun = TRUE]
  ELSE sh

\* Player.unlock_rpg.
unlock_rpg(sh) ==
  IF ~sh.has_rpg /\ sh.coins >= 50
  THEN [sh EXCEPT !.coins = @ - 50, !.has_rpg = TRUE]
  ELSE sh

\* The keys that leave the shop: 1 and 2 buy if they can, Escape and N
\* set shop_prompted.
ShopKeys == {"K_1", "K_2", "K_ESCAPE", "K_n"}

ShopKeyDown(sh, key) ==
  IF key = "K_1" THEN [unlock_shotgun(sh) EXCEPT !.state = "playing"]
  ELSE IF key = "K_2" THEN [unlock_rpg(sh) EXCEPT !.state = "playing"]
  ELSE [sh EXCEPT !.shop_prompted = TRUE, !.state = "playing"]

\* A robot dies by a bullet, an explosion or a melee attack.
ShopKill ==
  /\ shop.state = "playing"
  /\ shop.coins + DIFFICULTY[shop.difficulty].coins <= MaxCoins
  /\ shop' = KillCredit(shop)
  /\ shop_log' =
       LET paid == [shop EXCEPT !.coins = @ + DIFFICULTY[shop.difficulty].coins]
       IN  [shotgun |-> Cap(shop_log.shotgun + (IF ShopPrompt(paid) = "shotgun" THEN 1 ELSE 0), MaxPrompts),
            rpg |-> Cap(shop_log.rpg + (IF ShopPrompt(paid) = "rpg" THEN 1 ELSE 0), MaxPrompts)]
  /\ UNCHANGED exceptShop

\* A key pressed in the shop.
ShopKey ==
  /\ shop.state = "shop"
  /\ \E key \in ShopKeys : shop' = ShopKeyDown(shop, key)
  /\ UNCHANGED shop_log
  /\ UNCHANGED exceptShop

\* K_TAB while playing opens the shop (not in local PvP).
ShopTab ==
  /\ shop.state = "playing"
  /\ shop.game_mode # "pvp"
  /\ shop' = [shop EXCEPT !.state = "shop"]
  /\ UNCHANGED shop_log
  /\ UNCHANGED exceptShop

\* A match outside PvP; a new player has no coins and no bought weapon.
InitShop ==
  /\ WeaponIdle /\ ShotgunIdle /\ GrenadeIdle /\ FuseIdle /\ HitIdle /\ WaveIdle
  /\ TeamIdle /\ CombatIdle /\ FireIdle /\ BossIdle /\ BotIdle /\ LoopIdle /\ StrikeIdle
  /\ shop_log = NoShopLog
  /\ \E difficulty \in {"easy", "hard", "impossible"} :
       shop = [NoShop EXCEPT !.state = "playing", !.difficulty = difficulty]

NextShop ==
  \/ ShopKill
  \/ ShopKey
  \/ ShopTab

SpecShop == InitShop /\ [][NextShop]_vars

----------------------------------------------------------------------------
(* One robot's turn in the robot loop (specification SpecBot): the state   *)
(* machine and the cooldowns of Robot.update, then the choice between the  *)
(* knife and the gun.  Distances are whole numbers of pixels.              *)

\* Distances from the robot to a player: around the knife range (50), the
\* attack range (300) and the two detection ranges (400, 600).
Dists == {0, 49, 50, 299, 300, 399, 400, 599, 600}

\* Game.spawn_robots: the four kinds of robot, dealt in turn.
BotTypes == {"gun", "knife", "throwing_knife", "dual_pistol"}

\* Robot.__init__: fire_rate from the difficulty's settings, halved with a
\* floor of 15 for dual pistols, 20 longer for throwing knives.
RobotFireRate(bot_type, difficulty) ==
  LET fire_rate == DIFFICULTY[difficulty].fire_rate
  IN  IF bot_type = "dual_pistol"
      THEN (IF fire_rate \div 2 < 15 THEN 15 ELSE fire_rate \div 2)
      ELSE IF bot_type = "throwing_knife" THEN fire_rate + 20
      ELSE fire_rate

\* The fire rate as the model plays it, the knife's cooldown (30), range
\* (50) and damage (15).
BotFireRate(bot_type, difficulty) ==
  Cap(RobotFireRate(bot_type, difficulty), MaxBotFireRate)
KnifeCooldown == Cap(30, MaxKnifeCooldown)
knife_range == 50
knife_damage == 15

\* Robot.__init__; a robot of type "knife" is knife-only.
BotInit(bot_type, difficulty) ==
  [bot_type |-> bot_type, knife_only |-> bot_type = "knife",
   state |-> "patrol", fire_cooldown |-> 0,
   fire_rate |-> BotFireRate(bot_type, difficulty), knife_cooldown |-> 0]

\* A variant of RobotState with the gun robots' detection range for all.
RobotState_oneDetectRange(dist, knife_only) ==
  LET detect_range == 400
      attack_range == 300
  IN  IF dist < detect_range
      THEN (IF dist < attack_range THEN "attack" ELSE "chase")
      ELSE "patrol"

\* Robot.update, the state machine.
RobotState(dist, knife_only) ==
  LET detect_range == IF knife_only THEN 600 ELSE 400
      attack_range == 300
  IN  IF dist < detect_range
      THEN (IF dist < attack_range THEN "attack" ELSE "chase")
      ELSE "patrol"

\* Robot.update as far as the state and the cooldowns go.
RobotThink(r, dist) ==
  [r EXCEPT !.state = RobotState(dist, r.knife_only),
            !.fire_cooldown = IF @ > 0 THEN @ - 1 ELSE @,
            !.knife_cooldown = IF @ > 0 THEN @ - 1 ELSE @]

\* A variant of can_knife that does not look at the cooldown.
can_knife_anyTime(r, dist) == r.knife_only /\ dist < knife_range

can_knife(r, dist) == r.knife_only /\ r.knife_cooldown <= 0 /\ dist < knife_range

\* Robot.knife_attack: the robot with its cooldown set, and the damage.
knife_attack(r) ==
  [robot |-> [r EXCEPT !.knife_cooldown = KnifeCooldown], damage |-> knife_damage]

\* A variant of can_shoot that does not look at the state.
can_shoot_anyState(r) == ~r.knife_only /\ r.fire_cooldown <= 0

can_shoot(r) == ~r.knife_only /\ r.fire_cooldown <= 0 /\ r.state = "attack"

\* Robot.shoot: the cooldown is set and the kind decides the projectiles:
\* one throwing knife of damage 25, two pistol bullets of damage 8, or one
\* bullet with the damage of a non-player Bullet (10).
Robot_shoot(r) ==
  [robot |-> [r EXCEPT !.fire_cooldown = r.fire_rate],
   bullets |-> IF r.bot_type = "throwing_knife"
               THEN << [weapon_type |-> "Enemy_Knife", damage |-> 25] >>
               ELSE IF r.bot_type = "dual_pistol"
               THEN << [weapon_type |-> "Enemy_Pistol", damage |-> 8],
                       [weapon_type |-> "Enemy_Pistol", damage |-> 8] >>
               ELSE << [weapon_type |-> "Enemy", damage |-> 10] >>]

\* Game.update on what Robot.shoot returned: every bullet's damage is set to
\* the difficulty's before it joins self.bullets.
AppendRobotBullets(bullets, difficulty) ==
  [i \in DOMAIN bullets |->
     [bullets[i] EXCEPT !.damage = DIFFICULTY[difficulty].damage]]

\* The robot's target: player 1, or in co-op a living player 2 who is nearer.
TargetDist(b, dist1, dist2) ==
  IF b.game_mode \in CoopModes /\ b.player2_alive /\ dist2 < dist1
  THEN dist2 ELSE dist1

\* What a turn without an attack leaves.
NoAttack(r) ==
  [robot |-> r, act |-> "none", victim_dist |-> 0, damage |-> 0, bullets |-> << >>]

\* The body of the robot loop for one robot: update, then the knife on
\* player 1, else the co-op branch for player 2, else the gun.  in_smoke
\* says whether some cloud contains the target's or the robot's position.
RobotTurn(b, dist1, dist2, in_smoke) ==
  LET r == RobotThink(b.robot, TargetDist(b, dist1, dist2))
      stab(d) == LET k == knife_attack(r)
                 IN  [robot |-> k.robot, act |-> "knife", victim_dist |-> d,
                      damage |-> k.damage, bullets |-> << >>]
  IN  IF can_knife(r, dist1)
      THEN stab(dist1)
      ELSE IF b.game_mode \in CoopModes /\ b.player2_alive
      THEN IF can_knife(r, dist2) THEN stab(dist2) ELSE NoAttack(r)
      ELSE IF can_shoot(r)
      THEN IF ~in_smoke
           THEN LET s == Robot_shoot(r)
                IN  [robot |-> s.robot, act |-> "shoot", victim_dist |-> 0,
                     damage |-> 0,
                     bullets |-> AppendRobotBullets(s.bullets, b.difficulty)]
           ELSE NoAttack(r)
      ELSE NoAttack(r)

\* Frames since the robot's last knife attack (-1: none so far), counted up
\* to one more than the cooldown.
KnifeGap(log, act) ==
  IF act = "knife" THEN 0
  ELSE IF log.gap < 0 THEN log.gap
  ELSE Cap(log.gap + 1, KnifeCooldown + 1)

\* SmokeCloud.point_in_smoke for the target and for the robot, over all
\* clouds: either point may lie in some cloud.
BotFrame ==
  /\ \E dist1, dist2 \in Dists, target_in_smoke, robot_in_smoke \in BOOLEAN :
       LET in_smoke == target_in_smoke \/ robot_in_smoke
           t == RobotTurn(bot, dist1, dist2, in_smoke)
       IN  /\ bot' = [bot EXCEPT !.robot = t.robot]
           /\ bot_log' = [updated |-> TRUE, dist |-> TargetDist(bot, dist1, dist2),
                          smoke |-> in_smoke, act |-> t.act,
                          victim_dist |-> t.victim_dist, damage |-> t.damage,
                          bullets |-> t.bullets,
                          gap |-> KnifeGap(bot_log, t.act),
                          hits |-> IF t.act = "knife"
                                   THEN Cap(bot_log.hits + 1, 2)
                                   ELSE bot_log.hits]
  /\ UNCHANGED exceptBot

\* In co-op a player 2 who is alive dies.
BotPlayer2Dies ==
  /\ bot.player2_alive
  /\ bot' = [bot EXCEPT !.player2_alive = FALSE]
  /\ UNCHANGED bot_log
  /\ UNCHANGED exceptBot

\* A robot of any kind in a solo match or in a co-op match of two.
InitBot ==
  /\ WeaponIdle /\ ShotgunIdle /\ GrenadeIdle /\ FuseIdle /\ HitIdle /\ WaveIdle
  /\ TeamIdle /\ CombatIdle /\ FireIdle /\ BossIdle /\ LoopIdle /\ StrikeIdle /\ ShopIdle
  /\ bot_log = NoBotLog
  /\ \E bot_type \in BotTypes, game_mode \in {"solo", "coop"},
        difficulty \in {"easy", "impossible"} :
       bot = [game_mode |-> game_mode, player2_alive |-> game_mode = "coop",
              difficulty |-> difficulty, robot |-> BotInit(bot_type, difficulty)]

NextBot ==
  \/ BotFrame
  \/ BotPlayer2Dies

SpecBot == InitBot /\ [][NextBot]_vars

----------------------------------------------------------------------------
(* The boss (specification SpecBoss): Boss.update with its pattern timer   *)
(* and its charge, and the volley the boss block of Game.update adds.      *)
(* Distances are whole pixels; the pattern time (180) and the fire rate    *)
(* (20) are capped.                                                        *)

BossFireRate == 20
BossSpread == 5
PatternTime == Cap(180, MaxPatternTime)

\* Distances from the boss to the player at the moment a charge locks on:
\* inside the arrival radius (20), just outside, one and two charge steps
\* (8) away.
ChargeDists == {0, 20, 21, 28, 36}

\* Boss.__init__.
BossInit ==
  [attack_pattern |-> 0, pattern_timer |-> 0, is_charging |-> FALSE,
   charge_target |-> "None", cdist |-> 0, fire_cooldown |-> 0,
   fire_rate |-> Cap(BossFireRate, MaxBossFireRate),
   locked |-> FALSE, landed |-> FALSE]

(***************************************************************************)
(* Boss.update.  dist is the distance to the player, which a charge that   *)
(* locks on in this call takes as the distance to its target; blocked      *)
(* says that the clamp to the map keeps the boss from nearing the target.  *)
(* cdist is the distance from the boss to charge_target; locked and landed *)
(* record that this call locked a target and that it ended the charge on   *)
(* arrival.                                                                *)
(***************************************************************************)
Boss_update(b, dist, blocked) ==
  LET t  == b.pattern_timer + 1
      b0 == [b EXCEPT !.locked = FALSE, !.landed = FALSE]
      b1 == IF t > PatternTime
            THEN [b0 EXCEPT !.pattern_timer = 0,
                            !.attack_pattern = (@ + 1) % 3,
                            !.is_charging = FALSE]
            ELSE [b0 EXCEPT !.pattern_timer = t]
      b2 == IF b1.attack_pattern = 1 /\ ~b1.is_charging /\ b1.pattern_timer = 1
            THEN [b1 EXCEPT !.is_charging = TRUE, !.charge_target = "point",
                            !.cdist = dist, !.locked = TRUE]
            ELSE b1
      b3 == IF b2.attack_pattern = 1 /\ b2.is_charging /\ b2.charge_target # "None"
            THEN IF b2.cdist > 20
                 THEN (IF blocked THEN b2 ELSE [b2 EXCEPT !.cdist = @ - 8])
                 ELSE [b2 EXCEPT !.is_charging = FALSE, !.landed = TRUE]
            ELSE b2
  IN  [b3 EXCEPT !.fire_cooldown = IF @ > 0 THEN @ - 1 ELSE @]

Boss_can_shoot(b) == b.fire_cooldown <= 0

\* Boss.shoot: the cooldown is set and a spread of bullets of damage 15 made.
Boss_shoot(b) ==
  [boss |-> [b EXCEPT !.fire_cooldown = b.fire_rate],
   bullets |-> [i \in 1 .. BossSpread |-> [weapon_type |-> "Enemy", damage |-> 15]]]

\* History of the patterns: the update calls made under the pattern in
\* course, the length of the first pattern and of the last one that ended
\* (0: none yet), the charges locked and an arrival in the pattern in
\* course, and the bullets of the last frame's volley.
NoBossLog ==
  [calls |-> 0, first_len |-> 0, last_len |-> 0, locks |-> 0,
   arrived |-> FALSE, volley |-> 0, frames |-> 0]

BossLog(log, b, n, volley) ==
  LET switched == n.attack_pattern # b.attack_pattern
      locked == n.locked
      landed == n.landed
  IN  [calls |-> IF switched THEN 1 ELSE log.calls + 1,
       first_len |-> IF switched /\ log.first_len = 0 THEN log.calls
                     ELSE log.first_len,
       last_len |-> IF switched THEN log.calls ELSE log.last_len,
       locks |-> IF switched THEN (IF locked THEN 1 ELSE 0)
                 ELSE IF locked THEN Cap(log.locks + 1, 2) ELSE log.locks,
       arrived |-> IF switched THEN FALSE ELSE (log.arrived \/ landed),
       volley |-> volley,
       frames |-> Cap(log.frames + 1, 1)]

\* "Update boss" of Game.update: Boss.update on the target, then the volley.
BossFrame ==
  /\ boss.attack_pattern \in 0 .. 2
  /\ \E dist \in ChargeDists, blocked \in BOOLEAN :
       LET u == Boss_update(boss, dist, blocked)
           s == IF Boss_can_shoot(u) THEN Boss_shoot(u)
                ELSE [boss |-> u, bullets |-> << >>]
       IN  /\ boss' = s.boss
           /\ boss_log' = BossLog(boss_log, boss, u, Len(s.bullets))
  /\ UNCHANGED exceptBoss

\* Game.spawn_boss: a new Boss.
InitBoss ==
  /\ WeaponIdle /\ ShotgunIdle /\ GrenadeIdle /\ FuseIdle /\ HitIdle /\ WaveIdle
  /\ TeamIdle /\ CombatIdle /\ FireIdle /\ LoopIdle /\ StrikeIdle /\ ShopIdle /\ BotIdle
  /\ boss = BossInit
  /\ boss_log = NoBossLog

NextBoss == BossFrame

SpecBoss == InitBoss /\ [][NextBoss]_vars

----------------------------------------------------------------------------
(* The fire cooldown across weapon switches (specification SpecFire): one  *)
(* player's current_weapon and fire_cooldown under shots, the switch keys  *)
(* and frames, with the catalogue's fire rates and the switch cooldown of  *)
(* 15 frames as they are.  At most MaxShots shots are fired, fewer than    *)
(* the smallest magazine holds, and no reload is started, so that a shot   *)
(* is declined by the cooldown alone.                                      *)

\* The longest fire rate of the catalogue.
LongestFireRate ==
  CHOOSE r \in {WeaponCatalog[i].fire_rate : i \in 1..NumWeapons} :
    \A i \in 1..NumWeapons : WeaponCatalog[i].fire_rate <= r

\* Player.__init__, the fields the cooldown depends on.
FireInit == [current_weapon |-> 0, fire_cooldown |-> 0, want_switch |-> FALSE]

\* No shot so far.
NoFireLog == [weapon |-> -1, since |-> 0, shots |-> 0]

\* Player.shoot with ammunition in the magazine and no reload in progress:
\* declined while the cooldown runs, else the cooldown is set to the
\* equipped weapon's fire_rate.
FireShoot(f) ==
  IF f.fire_cooldown > 0 THEN [p |-> f, shot |-> FALSE]
  ELSE [p |-> [f EXCEPT !.fire_cooldown = WeaponCatalog[f.current_weapon + 1].fire_rate],
        shot |-> TRUE]

\* Player.update: the cooldown counts down, then the deferred switch.
FireUpdate(f) ==
  LET f1 == IF f.fire_cooldown > 0
            THEN [f EXCEPT !.fire_cooldown = @ - 1] ELSE f
  IN  IF f1.want_switch
      THEN [f1 EXCEPT !.want_switch = FALSE,
                      !.current_weapon = (@ + 1) % NumWeapons,
                      !.fire_cooldown = 15]
      ELSE f1

\* A click, a held button or K_RETURN: every branch calls shoot().
FireTrigger ==
  /\ fire_log.shots < MaxShots
  /\ LET r == FireShoot(fire)
     IN  /\ fire' = r.p
         /\ fire_log' = IF r.shot
                        THEN [weapon |-> fire.current_weapon, since |-> 0,
                              shots |-> fire_log.shots + 1]
                        ELSE fire_log
  /\ UNCHANGED exceptFire

\* K_q and K_e: the next or the previous weapon, the cooldown untouched.
FireKeyNextPrev ==
  /\ NumWeapons > 1
  /\ \E step \in {1, NumWeapons - 1} :
       fire' = [fire EXCEPT !.current_weapon = (@ + step) % NumWeapons]
  /\ UNCHANGED fire_log
  /\ UNCHANGED exceptFire

\* K_1 .. K_9: direct selection, fire_cooldown = 15.
FireKeyNumber ==
  /\ \E weapon_idx \in 0..8 :
       /\ weapon_idx < NumWeapons
       /\ fire' = [fire EXCEPT !.current_weapon = weapon_idx,
                               !.fire_cooldown = 15]
  /\ UNCHANGED fire_log
  /\ UNCHANGED exceptFire

\* The touch switch button: Player.switch_weapon.
FireTouchSwitch ==
  /\ ~fire.want_switch
  /\ fire' = [fire EXCEPT !.want_switch = TRUE]
  /\ UNCHANGED fire_log
  /\ UNCHANGED exceptFire

\* A frame: Player.update; the frames since the last shot are counted up to
\* the longest fire rate.
FireFrame ==
  /\ fire' = FireUpdate(fire)
  /\ fire_log' = IF fire_log.weapon >= 0
                 THEN [fire_log EXCEPT !.since = Cap(@ + 1, LongestFireRate)]
                 ELSE fire_log
  /\ UNCHANGED exceptFire

InitFire ==
  /\ WeaponIdle /\ ShotgunIdle /\ GrenadeIdle /\ FuseIdle /\ HitIdle /\ WaveIdle
  /\ TeamIdle /\ CombatIdle /\ LoopIdle /\ StrikeIdle /\ ShopIdle /\ BotIdle /\ BossIdle
  /\ fire = FireInit
  /\ fire_log = NoFireLog

NextFire ==
  \/ FireTrigger
  \/ FireKeyNextPrev
  \/ FireKeyNumber
  \/ FireTouchSwitch
  \/ FireFrame

SpecFire == InitFire /\ [][NextFire]_vars

----------------------------------------------------------------------------
(* A co-op match around player 1's death (specification SpecCombat): the   *)
(* robot bullets that damage the players, player 1's inputs and update,    *)
(* and player 2's shot.  Player 1 walks along one axis of MaxWalk steps;   *)
(* at most MaxShots objects are added, fewer than the smallest magazine    *)
(* holds, and no reload is started.                                        *)

\* What the players have added to the simulation so far.
CombatAdded(c) ==
  c.bullets + c.grenades + c.smoke_grenades + c.melees + c.bullets2

\* Player 1's weapon in this match.
CombatWeapon(c) == Weapons[c.current_weapon + 1]

\* Player.shoot of player 1: declined while the cooldown runs; nothing in it
\* reads the player's health.
CombatShoot(c) ==
  IF c.fire_cooldown > 0 THEN [c |-> c, shot |-> FALSE]
  ELSE [c |-> [c EXCEPT !.fire_cooldown = CombatWeapon(c).fire_rate],
        shot |-> TRUE]

\* Player.update of player 1: the movement keys, clamped to the map, then
\* the cooldown.
CombatUpdate(c, dx) ==
  [c EXCEPT !.x = IF @ + dx < 0 THEN 0 ELSE Cap(@ + dx, MaxWalk),
            !.fire_cooldown = IF @ > 0 THEN @ - 1 ELSE @]

\* "Robot bullets hit players" for one bullet.
CombatRobotBullet ==
  /\ combat.state = "playing"
  /\ \E on1, on2 \in BOOLEAN, damage \in Damages :
       LET n == RobotBulletBlock(combat, on1, on2, damage)
       IN  /\ n # combat
           /\ Bounded(n)
           /\ combat' = n
  /\ UNCHANGED exceptCombat

\* K_1 .. K_9 while playing: player 1 selects a weapon.
CombatKeyNumber ==
  /\ combat.state = "playing"
  /\ \E weapon_idx \in 0..8 :
       /\ weapon_idx < NumWeapons
       /\ weapon_idx # combat.current_weapon
       /\ combat' = [combat EXCEPT !.current_weapon = weapon_idx,
                                   !.fire_cooldown = SwitchCooldown]
  /\ UNCHANGED exceptCombat

\* Left mouse button pressed while playing: by weapon type a grenade, a
\* smoke grenade, a melee attack or a bullet of player 1.
CombatMouseDown ==
  /\ combat.state = "playing"
  /\ CombatAdded(combat) < MaxShots
  /\ LET r == CombatShoot(combat)
         w == CombatWeapon(combat)
     IN  /\ r.shot
         /\ combat' = IF w.grenade THEN [r.c EXCEPT !.grenades = @ + 1]
                      ELSE IF w.smoke_grenade THEN [r.c EXCEPT !.smoke_grenades = @ + 1]
                      ELSE IF w.melee THEN [r.c EXCEPT !.melees = @ + 1]
                      ELSE [r.c EXCEPT !.bullets = @ + 1]
  /\ UNCHANGED exceptCombat

\* The button held: continuous shooting, not for melee or grenades.
CombatMouseHeld ==
  /\ combat.state = "playing"
  /\ CombatAdded(combat) < MaxShots
  /\ LET w == CombatWeapon(combat)
     IN  ~w.melee /\ ~w.grenade /\ ~w.smoke_grenade
  /\ LET r == CombatShoot(combat)
     IN  /\ r.shot
         /\ combat' = [r.c EXCEPT !.bullets = @ + 1]
  /\ UNCHANGED exceptCombat

\* K_RETURN: the knife of player 1.
CombatKeyReturn ==
  /\ combat.state = "playing"
  /\ CombatAdded(combat) < MaxShots
  /\ CombatWeapon(combat).melee
  /\ LET r == CombatShoot(combat)
     IN  /\ r.shot
         /\ combat' = [r.c EXCEPT !.melees = @ + 1]
  /\ UNCHANGED exceptCombat

\* Game.handle_player2_shoot: nothing for a missing or dead player 2.
CombatPlayer2Shoot ==
  /\ combat.state = "playing"
  /\ CombatAdded(combat) < MaxShots
  /\ Player2Alive(combat)
  /\ combat' = [combat EXCEPT !.bullets2 = @ + 1]
  /\ UNCHANGED exceptCombat

\* Game.update while playing: player 1's update with the movement keys.
CombatFrame ==
  /\ combat.state = "playing"
  /\ \E dx \in {-1, 0, 1} :
       /\ combat' = CombatUpdate(combat, dx)
       /\ combat' # combat
  /\ UNCHANGED exceptCombat

\* A co-op match of two living players; player 1 holds the Rifle.
InitCombat ==
  /\ WeaponIdle /\ ShotgunIdle /\ GrenadeIdle /\ FuseIdle /\ HitIdle /\ WaveIdle
  /\ TeamIdle /\ FireIdle /\ LoopIdle /\ StrikeIdle /\ ShopIdle /\ BotIdle /\ BossIdle
  /\ combat = [state |-> "playing", game_mode |-> "coop",
               player |-> [health |-> PlayerLife],
               player2 |-> [present |-> TRUE, health |-> PlayerLife],
               pvp_winner |-> "None",
               current_weapon |-> 0, fire_cooldown |-> 0, x |-> 0,
               bullets |-> 0, grenades |-> 0, smoke_grenades |-> 0,
               melees |-> 0, bullets2 |-> 0]

NextCombat ==
  \/ CombatRobotBullet
  \/ CombatKeyNumber
  \/ CombatMouseDown
  \/ CombatMouseHeld
  \/ CombatKeyReturn
  \/ CombatPlayer2Shoot
  \/ CombatFrame

SpecCombat == InitCombat /\ [][NextCombat]_vars

----------------------------------------------------------------------------
(* Properties of the weapon model (specification Spec).                    *)

ShootDeclines(p) ==
  \/ p.fire_cooldown > 0
  \/ p.reloading
  \/ (~weapon(p).melee /\ ammo(p) = 0)

\* C1: a shoot() called while the fire cooldown is running, or during a
\* reload, or with an empty non-melee weapon returns None and leaves the
\* whole player (ammo of every weapon, fire_cooldown, recoil, reload state)
\* as it was.
C1_ShootDeclinesWithoutEffect ==
  [][(call' = "shoot" /\ ShootDeclines(player))
       => (ret' = NoneRet /\ player' = player)]_vars

\* An empty non-melee weapon, cooldown elapsed, no reload: shoot() was
\* called and returned None, ammo still 0.
C1_Witness ==
  /\ call = "shoot" /\ ret = NoneRet
  /\ ~weapon(player).melee /\ ammo(player) = 0
  /\ player.fire_cooldown = 0 /\ ~player.reloading

\* C2: a successful shoot() takes exactly one round from the equipped
\* weapon unless it is melee (then none), leaves the other weapons' ammo
\* alone, and sets fire_cooldown to the equipped weapon's fire_rate.
C2_ShootSpendsOneRound ==
  [][(call' = "shoot" /\ ~ShootDeclines(player))
       => /\ ret'.kind # "None"
          /\ player'.fire_cooldown = weapon(player).fire_rate
          /\ \A i \in 1..NumWeapons :
               player'.weapons[i].ammo =
                 IF i = player.current_weapon + 1 /\ ~Weapons[i].melee
                 THEN player.weapons[i].ammo - 1
                 ELSE player.weapons[i].ammo]_vars

\* A shot of a non-melee weapon out of a full magazine has just succeeded.
C2_Witness ==
  /\ call = "shoot" /\ ret.kind = "Bullet"
  /\ ammo(player) = max_ammo(player) - 1
  /\ player.fire_cooldown = weapon(player).fire_rate

\* What the capability flags of a weapon promise shoot() returns.
ExpectedReturn(w) ==
  IF w.melee THEN "melee"
  ELSE IF w.grenade \/ w.smoke_grenade THEN "grenade"
  ELSE "Bullet"

\* C3: a successful shoot() returns the melee descriptor for a melee
\* weapon, a throw descriptor for a grenade and for a smoke-grenade weapon,
\* and otherwise a Bullet with the weapon's speed, damage and name; a
\* successful throw of the Smoke weapon makes the orchestrator spawn a
\* SmokeGrenade.
C3_ReturnFollowsWeaponFlags ==
  (call = "shoot" /\ ret.kind # "None")
    => /\ ret.kind = ExpectedReturn(weapon(player))
       /\ ret.kind = "Bullet"
            => /\ ret.speed = weapon(player).bullet_speed
               /\ ret.damage = weapon(player).damage
               /\ ret.weapon_type = weapon(player).name
       /\ weapon(player).smoke_grenade => spawned = "SmokeGrenade"
       /\ ~crashed

\* C4: while a reload is in progress fewer than reload_duration calls of
\* update_reload have been made since start_reload, the timer is the
\* duration less those calls and the phase is 1 - timer/duration; the call
\* that finishes the reload is the reload_duration-th, it clears reloading,
\* refills the equipped weapon and, the weapon the reload was started on
\* being still equipped, leaves it one reloads charge less than at the start.
C4_ReloadCycle ==
  /\ player.reloading
       => /\ player.reload_duration = Weapons[reload_log.weapon + 1].reload_time
          /\ reload_log.calls < player.reload_duration
          /\ player.reload_timer = player.reload_duration - reload_log.calls
          /\ player.reload_phase = player.reload_duration - player.reload_timer
  /\ (call = "frame" /\ flag)
       => /\ ~player.reloading
          /\ reload_log.calls = player.reload_duration
          /\ player.reload_duration = Weapons[reload_log.weapon + 1].reload_time
          /\ ammo(player) = max_ammo(player)
          /\ player.current_weapon = reload_log.weapon
               => reloads(player) = reload_log.reloads - 1

\* A reload has just finished on the weapon it was started on.
C4_Witness ==
  /\ call = "frame" /\ flag
  /\ player.current_weapon = reload_log.weapon
  /\ reload_log.calls = player.reload_duration
  /\ reload_log.calls > 1
  /\ reloads(player) = reload_log.reloads - 1
  /\ ammo(player) = max_ammo(player)

StartReloadNoOp(p) ==
  \/ p.reloading
  \/ weapon(p).no_reload
  \/ reloads(p) = 0
  \/ ammo(p) = max_ammo(p)

\* C5: start_reload() changes nothing when a reload is in progress, the
\* weapon has no_reload, its reloads is 0 or its ammo is full; in every
\* other state it sets reloading, reload_timer = the weapon's reload
\* duration and reload_phase = 0.
C5_StartReloadContract ==
  [][call' = "start_reload"
       => IF StartReloadNoOp(player)
          THEN player' = player /\ flag' = FALSE
          ELSE /\ player'.reloading
               /\ player'.reload_timer = weapon(player).reload_time
               /\ player'.reload_phase = 0]_vars

\* C6: every weapon's ammo stays within 0 .. max_ammo.
C6_AmmoInRange ==
  \A i \in 1..NumWeapons :
    /\ player.weapons[i].ammo >= 0
    /\ player.weapons[i].ammo <= Weapons[i].max_ammo

\* A reload has just refilled the equipped weapon while another weapon
\* has been shot empty.
C6_Witness ==
  /\ call = "frame" /\ flag
  /\ ammo(player) = max_ammo(player)
  /\ \E i \in 1..NumWeapons : player.weapons[i].ammo = 0

\* C7: no reload ever completes on a melee or no_reload weapon: such a
\* weapon keeps the reloads count it was created with and is never the
\* weapon a finishing update_reload refills.
C7_NoReloadOnMeleeOrNoReload ==
  /\ (call = "frame" /\ flag)
       => (~weapon(player).melee /\ ~weapon(player).no_reload)
  /\ \A i \in 1..NumWeapons :
       (Weapons[i].melee \/ Weapons[i].no_reload)
         => player.weapons[i].reloads = Weapons[i].reloads


----------------------------------------------------------------------------
(* Properties of Bullet.get_damage (specification SpecShotgun).            *)

Max2(a, b) == IF a > b THEN a ELSE b
Min2(a, b) == IF a < b THEN a ELSE b

\* round(n / d) as Python rounds: to the nearest integer, ties to even.
RoundRatio(n, d) ==
  LET q == n \div d
      r == n % d
  IN  IF 2 * r < d THEN q
      ELSE IF 2 * r > d THEN q + 1
      ELSE IF q % 2 = 0 THEN q ELSE q + 1

\* max(10, round(base_damage * (1 - min(d,150)/150 * 0.8)))
RoundedFalloff(base, d) ==
  Max2(10, RoundRatio(base * (1500 - 8 * Min2(d, 150)), 1500))

\* C8 as stated: a shotgun pellet's damage is the rounded falloff, floored
\* at 10; base_damage at distance 0; 10 from distance 150 on; never below 10.
C8_PelletDamageRounded ==
  (bullet.is_shotgun /\ hit_damage # -1)
    => /\ hit_damage = RoundedFalloff(bullet.base_damage, bullet.dist)
       /\ bullet.dist = 0 => hit_damage = bullet.base_damage
       /\ bullet.dist >= 150 => hit_damage = 10
       /\ hit_damage >= 10

\* C8 amended: nearer than 150 the pellet's damage is the falloff
\* base_damage * (1 - d/150 * 0.8) truncated toward zero (one less at most
\* where the exact product is an integer and the float falls short of it);
\* base_damage at distance 0; 10 from distance 150 on; never below 10.
C8_PelletDamageTruncated ==
  (bullet.is_shotgun /\ hit_damage # -1)
    => /\ bullet.dist < 150
            => /\ hit_damage * 1500 <= bullet.base_damage * (1500 - 8 * bullet.dist)
               /\ bullet.base_damage * (1500 - 8 * bullet.dist) <= (hit_damage + 1) * 1500
               /\ (bullet.base_damage * (1500 - 8 * bullet.dist)) % 1500 # 0
                    => bullet.base_damage * (1500 - 8 * bullet.dist) < (hit_damage + 1) * 1500
       /\ bullet.dist = 0 => hit_damage = bullet.base_damage
       /\ bullet.dist >= 150 => hit_damage = 10
       /\ hit_damage >= 10

\* A pellet struck inside the falloff range where truncating and rounding
\* differ.
C8_Witness ==
  /\ bullet.is_shotgun /\ hit_damage # -1
  /\ bullet.dist > 0 /\ bullet.dist < 150
  /\ hit_damage < RoundedFalloff(bullet.base_damage, bullet.dist)

----------------------------------------------------------------------------
(* Properties of grenades and explosions (specification SpecGrenade).      *)

GrenadeIds == 1..Len(blast_log.made)

\* The damage applications of grenade id to robots.
RobotHits(id) ==
  {blast_log.hits[id][k] : k \in {j \in 1..Len(blast_log.hits[id]) :
                                    blast_log.hits[id][j].target # PlayerTarget}}

WasHit(id, target) == \E h \in RobotHits(id) : h.target = target

RobotsOnMap == {game.robots[i] : i \in 1..Len(game.robots)}

\* C9 as stated (a float product just short of a whole number allowed for):
\* a robot at distance d of a detonating grenade takes
\* round(damage * (1 - d/radius * 0.5)) for every d <= radius, the full
\* damage at d = 0 and exactly half of it at d = radius; a robot farther
\* away takes none.
C9_BlastDamageRounded ==
  \A id \in GrenadeIds :
    LET g == GrenadeInit(id)
    IN  /\ \A h \in RobotHits(id) :
             LET n == g.damage * (2 * g.explosion_radius - h.dist)
                 den == 2 * g.explosion_radius
             IN  /\ h.dist <= g.explosion_radius
                 /\ \/ h.damage = RoundRatio(n, den)
                    \/ n % den = 0 /\ h.dist > 0 /\ h.damage = RoundRatio(n, den) - 1
                 /\ h.dist = 0 => h.damage = g.damage
                 /\ h.dist = g.explosion_radius => 2 * h.damage = g.damage
        /\ blast_log.made[id] = 1
             => \A robot \in RobotsOnMap :
                  robot.dist <= g.explosion_radius <=> WasHit(id, robot.id)

\* C9 amended: a robot nearer than the radius takes
\* damage * (1 - d/radius * 0.5) truncated toward zero (one less at most
\* where the exact product is an integer and the float falls short of it):
\* the full damage at d = 0 and never less than half of it; a robot at the
\* radius or farther takes none.
C9_BlastDamageTruncated ==
  \A id \in GrenadeIds :
    LET g == GrenadeInit(id)
    IN  /\ \A h \in RobotHits(id) :
             LET n == g.damage * (2 * g.explosion_radius - h.dist)
                 den == 2 * g.explosion_radius
             IN  /\ h.dist < g.explosion_radius
                 /\ h.damage * den <= n
                 /\ n <= (h.damage + 1) * den
                 /\ n % den # 0 => n < (h.damage + 1) * den
                 /\ h.dist = 0 => h.damage = g.damage
                 /\ 2 * h.damage >= g.damage
        /\ blast_log.made[id] = 1
             => \A robot \in RobotsOnMap :
                  robot.dist < g.explosion_radius <=> WasHit(id, robot.id)

\* A grenade has gone off with a robot at an odd distance inside the
\* radius, where truncating and rounding differ.
C9_Witness ==
  \E id \in GrenadeIds :
    /\ blast_log.made[id] = 1
    /\ \E h \in RobotHits(id) :
         /\ h.dist % 2 = 1 /\ h.dist < GrenadeInit(id).explosion_radius
         /\ h.damage < RoundRatio(GrenadeInit(id).damage
                                    * (2 * GrenadeInit(id).explosion_radius - h.dist),
                                  2 * GrenadeInit(id).explosion_radius)

Listed(gm, id) == \E i \in 1..Len(gm.grenades) : gm.grenades[i].id = id

\* Grenade id is in the list on the last frame of its fuse.
FuseElapses(gm, id) ==
  \E i \in 1..Len(gm.grenades) :
    gm.grenades[i].id = id /\ gm.grenades[i].lifetime = 1

ExplosionsOf(gm, id) == {i \in 1..Len(gm.explosions) : gm.explosions[i].of = id}

NoTargetTwice(hits) ==
  \A i, j \in 1..Len(hits) : i # j => hits[i].target # hits[j].target

\* Health of every target: the player's, and each robot's on the map.
Healths(gm) == << gm.health, gm.robots >>

DetonatedOnce(gm, log) ==
  \A id \in 1..Len(log.made) :
    /\ log.made[id] <= 1
    /\ Cardinality(ExplosionsOf(gm, id)) <= log.made[id]
    /\ NoTargetTwice(log.hits[id])
    /\ log.hits[id] # << >> => log.made[id] = 1
    /\ Listed(gm, id)
         => /\ log.made[id] = 0
            /\ \A i \in 1..Len(gm.grenades) :
                 gm.grenades[i].id = id
                   => gm.grenades[i].lifetime > 0 /\ ~gm.grenades[i].exploded

\* C10: a grenade makes one Explosion and damages each target at most
\* once, all in the frame its fuse elapses, and that frame takes it out of
\* the grenade list (only start_game empties the list otherwise); a frame in
\* which no fuse elapses, whatever Explosions it updates, changes nobody's
\* health; no grenade ever makes a second Explosion.
C10_DetonatesOnce ==
  [][ /\ DetonatedOnce(game', blast_log')
      /\ \A id \in GrenadeIds :
           /\ (blast_log'.made[id] # blast_log.made[id]
                 \/ blast_log'.hits[id] # blast_log.hits[id])
                => game.state = "playing" /\ FuseElapses(game, id)
           /\ (game.state = "playing" /\ FuseElapses(game, id) /\ game' # game
                 /\ game'.thrown = game.thrown)
                => /\ blast_log'.made[id] = 1
                   /\ Cardinality(ExplosionsOf(game', id)) = 1
                   /\ ~Listed(game', id)
           /\ (Listed(game, id) /\ ~Listed(game', id))
                => blast_log'.made[id] = 1 \/ game.state = "gameover"
      /\ (Healths(game') # Healths(game) /\ game.state # "gameover")
           => \E id \in GrenadeIds :
                FuseElapses(game, id) /\ blast_log'.hits[id] # blast_log.hits[id]
    ]_vars

\* A grenade has gone off and left the list; its Explosion has grown over
\* two later updates, and a robot it hit is still on the map with exactly
\* that one hit taken.
C10_Witness ==
  \E id \in GrenadeIds :
    /\ blast_log.made[id] = 1 /\ ~Listed(game, id)
    /\ \E i \in ExplosionsOf(game, id) : game.explosions[i].current_radius >= 40
    /\ \E robot \in RobotsOnMap, h \in RobotHits(id) :
         /\ h.target = robot.id
         /\ robot.health = DIFFICULTY[game.difficulty].health - h.damage

----------------------------------------------------------------------------
(* Properties of the fuse (specification SpecFuse).                        *)

\* C11: for a grenade with fuse 90, should_explode() answers false after
\* each of the first 89 update() calls, true after the 90th, and false after
\* every later one: it has answered true exactly once.
C11_FuseFiresOnceAt90 ==
  fuse.updates > 0
    => /\ fuse.updates < 90 => ~fuse.answer /\ fuse.trues = 0
       /\ fuse.updates = 90 => fuse.answer /\ fuse.trues = 1
       /\ fuse.updates > 90 => ~fuse.answer /\ fuse.trues = 1

\* The grenade has been updated past its 90th call.
C11_Witness ==
  fuse.updates > 95 /\ fuse.trues = 1 /\ fuse.exploded /\ ~fuse.in_list

----------------------------------------------------------------------------
(* Properties of bullet hits and of the freeze (specification SpecHit).    *)

\* The step is a bullet hit.
IsHit == hit_log'.n # hit_log.n

RobotsOf(ar) == {ar.robots[k] : k \in 1..Len(ar.robots)}

\* C12: a hit by a freeze-class weapon of the player, be it the entry
\* loaded from the save or the entry unlocked in the shop, sets the frozen
\* countdown of the robot hit to the fixed freeze duration.
C12_FreezeHitSetsCountdown ==
  [][ (IsHit /\ hit_log'.weapon.freeze /\ OnMap(arena'.robots, hit_log'.target))
        => RobotById(arena'.robots, hit_log'.target).freeze_timer
             = Cap(FreezeDuration, MaxFreeze)
    ]_vars

\* C13: once a robot's frozen countdown has been set to N > 0, after each
\* of the next N calls of Robot.update its speed is 0.3 * base_speed and the
\* countdown is N less the calls made; after the call that follows the one
\* bringing the countdown to 0 its speed is base_speed.
C13_FreezeTiming ==
  \A r \in RobotsOf(arena) :
    LET f == hit_log.frozen[r.id]
    IN  (f.n > 0 /\ f.calls >= 1)
          => /\ f.calls <= f.n
                  => /\ 10 * r.speed = 3 * r.base_speed
                     /\ r.freeze_timer = f.n - f.calls
             /\ f.calls = f.n + 1
                  => r.speed = r.base_speed /\ r.freeze_timer = 0

\* A robot has been frozen, slowed for the whole countdown and has just
\* got its speed back.
C13_Witness ==
  \E r \in RobotsOf(arena) :
    /\ hit_log.frozen[r.id].n = Cap(FreezeDuration, MaxFreeze)
    /\ hit_log.frozen[r.id].calls = hit_log.frozen[r.id].n + 1
    /\ r.speed = r.base_speed /\ r.freeze_timer = 0

\* C14: when an electric-class projectile of the player hits robot A for
\* damage D, every other living robot nearer than the chain radius to A
\* loses floor(D/2) health and every robot farther away loses nothing (the
\* chain is one hop); for the saved and for the shop's electric weapon.
C14_ElectricChain ==
  [][ (IsHit /\ hit_log'.weapon.electric)
        => \A r \in RobotsOf(arena) :
             (r.id # hit_log'.target /\ r.health > 0)
               => /\ OnMap(arena'.robots, r.id)
                  /\ RobotById(arena'.robots, r.id).health =
                       IF Abs(r.pos - RobotById(arena.robots, hit_log'.target).pos)
                            < ChainRange
                       THEN r.health - (hit_log'.damage \div 2)
                       ELSE r.health
    ]_vars

\* C17: outside PvP, when a projectile of a non-sniper weapon brings a
\* robot's health to 0 or less, the robot leaves the active list in that
\* frame, kills grow by 1, the score by the difficulty's points and the
\* coins by the difficulty's coins; a hit that is not lethal removes no
\* robot and changes none of the counters.
C17_KillCredited ==
  [][ (IsHit /\ hit_log'.weapon.name # "Sniper" /\ arena.game_mode # "pvp")
        => LET A == RobotById(arena.robots, hit_log'.target)
               lethal == A.health - hit_log'.damage <= 0
           IN  /\ \A r \in RobotsOf(arena') : r.health > 0
               /\ lethal
                    => /\ ~OnMap(arena'.robots, A.id)
                       /\ arena'.kills = arena.kills + 1
                       /\ arena'.score = arena.score + DIFFICULTY[arena.difficulty].points
                       /\ arena'.coins = arena.coins + DIFFICULTY[arena.difficulty].coins
               /\ ~lethal
                    => /\ Len(arena'.robots) = Len(arena.robots)
                       /\ RobotById(arena'.robots, A.id).health = A.health - hit_log'.damage
                       /\ arena'.kills = arena.kills
                       /\ arena'.score = arena.score
                       /\ arena'.coins = arena.coins
    ]_vars

----------------------------------------------------------------------------
(* Properties of the waves (specification SpecWave).                       *)

\* The frame's win-condition test finds the wave over with more to come.
WaveOver(w) ==
  /\ w.state = "playing" /\ w.difficulty = "impossible"
  /\ w.current_wave < w.max_waves /\ w.robots = 0 /\ ~w.boss

\* C15: on "impossible", with current_wave < max_waves, no robot and no
\* boss, the frame in which the settle delay runs out raises current_wave
\* by 1 and spawns DIFFICULTY[difficulty].count robots, and a boss as well
\* when the new wave is the last; current_wave changes in no other step.
C15_WaveProgression ==
  [][ /\ (WaveOver(wave) /\ wave_log' \in {"frame", "next_wave", "won"}
            /\ wave.wave_complete_timer >= Cap(SettleDelay, MaxSettle))
           => /\ wave'.current_wave = wave.current_wave + 1
              /\ wave'.robots = DIFFICULTY[wave.difficulty].count
              /\ wave'.boss = (wave'.current_wave = wave.max_waves)
      /\ wave'.current_wave # wave.current_wave
           => /\ WaveOver(wave)
              /\ wave.wave_complete_timer >= Cap(SettleDelay, MaxSettle)
              /\ wave_log' = "next_wave"
      /\ (wave'.robots > wave.robots \/ (wave'.boss /\ ~wave.boss))
           => wave'.current_wave = wave.current_wave + 1
    ]_vars

\* The last wave has just started: its robots and the boss are on the map.
C15_Witness ==
  /\ wave_log = "next_wave"
  /\ wave.current_wave = wave.max_waves
  /\ wave.robots = DIFFICULTY["impossible"].count
  /\ wave.boss

\* C16: on "impossible" the win branch ends the match only in a frame that
\* finds current_wave = max_waves, no robot and no boss.
C16_WonOnlyAfterLastWave ==
  [][ (wave_log' = "won" /\ wave.difficulty = "impossible")
        => /\ wave.current_wave = wave.max_waves
           /\ wave.robots = 0
           /\ ~wave.boss
    ]_vars

\* The match on "impossible" has been won.
C16_Witness ==
  /\ wave_log = "won" /\ wave.difficulty = "impossible"
  /\ wave.state = "gameover" /\ wave.current_wave = wave.max_waves

----------------------------------------------------------------------------
(* Properties of the lethal hits (specification SpecTeam).                 *)

\* Every player of the match has health <= 0.
AllDead(t) ==
  /\ t.player.health <= 0
  /\ t.player2.present => t.player2.health <= 0

\* The step made some player's take_damage return True.
LethalHit(log) == log.lethal1 \/ log.lethal2

\* C18: in the co-op modes a step whose lethal hit ends the match leaves
\* every co-op player with health <= 0: while one of them has health > 0
\* no player's death sets the state to gameover.
C18_CoopEndsWhenAllDead ==
  [][ ( /\ team.game_mode \in CoopModes
        /\ LethalHit(team_log')
        /\ team.state = "playing" /\ team'.state = "gameover" )
        => AllDead(team')
    ]_vars

\* A co-op match of two ended by the death of the second player, after a
\* lethal hit to the first had left it running.
C18_Witness ==
  /\ team.game_mode \in CoopModes
  /\ team.state = "gameover"
  /\ team.player2.present
  /\ LethalHit(team_log)
  /\ team.player.health <= 0 /\ team.player2.health <= 0
  /\ team_log.lethal1 # team_log.lethal2

\* C19: in the PvP modes every lethal hit ends the match in its frame and
\* leaves pvp_winner naming the player who was not killed.
C19_PvPWinnerIsOpponent ==
  [][ (team.game_mode \in PvPModes /\ LethalHit(team_log'))
        => /\ team'.state = "gameover"
           /\ team_log'.lethal1 => team'.pvp_winner = "Player 2"
           /\ team_log'.lethal2 => team'.pvp_winner = "Player 1"
    ]_vars

----------------------------------------------------------------------------
(* Properties of the simulation core (specification SpecCore).             *)

\* C20: no player action and no frame step of the main loop raises an
\* exception: the loop is never left by an error.
C20_NoFatalError == ~crashed

----------------------------------------------------------------------------
(* Properties of the frame's phases (specification SpecLoop).              *)

\* C21: every frame run in the playing state carries out all phases, in
\* the fixed order: projectile update and collision, grenades, robots and
\* their fire, boss, win/lose evaluation.
C21_AllPhasesEveryFrame ==
  loop_log.frames > 0 => loop_log.phases = AllPhases

\* The steps that start a match: construction, the restart key, a menu key.
MatchStarts == {"none", "restart", "menu"}

\* C22: start_game, the restart after gameover included, leaves a fresh
\* wave state: current_wave = 1, no boss, settle timer 0.
C22_StartGameResetsWaves ==
  [][ wave_log' = "restart"
        => /\ wave'.current_wave = 1
           /\ ~wave'.boss
           /\ wave'.wave_complete_timer = 0
    ]_vars

\* C23: outside PvP the first cohort exists when the win condition is
\* first evaluated: the frame that follows the start of a match does not
\* find the robot list empty and declare the match won.
C23_NoWinBeforeRobots ==
  [][ ~( /\ wave_log \in MatchStarts
         /\ wave.robots = 0
         /\ wave_log' = "won" )
    ]_vars

\* C24: a boss is present only on impossible, on the last wave.
C24_BossOnlyOnLastWave ==
  wave.boss => (wave.difficulty = "impossible" /\ wave.current_wave = wave.max_waves)

----------------------------------------------------------------------------
(* Properties of the robots' removal and of the bullet's strike.           *)

\* C25: after a hit has been resolved every robot of the active list has
\* health > 0: a robot brought to 0 or less has left the list.
C25_NoDeadRobotListed ==
  \A k \in 1..Len(arena.robots) : arena.robots[k].health > 0

\* The health of the robot with identity id, 0 when it is off the list.
HealthOf(robots, id) ==
  IF OnMap(robots, id) THEN RobotById(robots, id).health ELSE 0

\* C26: outside PvP a player bullet is tested against the living robots in
\* list order, then the boss; it stops at the first entity it overlaps,
\* deals its direct damage to that entity alone and leaves the bullet list
\* in the same frame.
C26_BulletStrikesOneEntity ==
  [][ strike_log'.n # strike_log.n
        => LET log == strike_log'
               robots == strike.ar.robots
               first == SetMin(log.over)
           IN  /\ strike'.bullets = strike.bullets - 1
               /\ log.over # {}
                    => /\ robots[first].health > 0
                       /\ strike'.boss = strike.boss
                       /\ HealthOf(strike'.ar.robots, robots[first].id)
                            = (IF robots[first].health - log.damage <= 0 THEN 0
                               ELSE robots[first].health - log.damage)
                       /\ \A k \in 1..Len(robots) :
                            k # first
                              => /\ OnMap(strike'.ar.robots, robots[k].id)
                                 /\ ~log.weapon.electric
                                      => HealthOf(strike'.ar.robots, robots[k].id)
                                           = robots[k].health
               /\ log.over = {}
                    => /\ strike'.ar.robots = robots
                       /\ strike'.boss.health
                            = (IF strike.boss.health - log.damage <= 0 THEN 0
                               ELSE strike.boss.health - log.damage)
    ]_vars

----------------------------------------------------------------------------
(* Properties of the robots' projectiles (specification SpecTeam).         *)

\* C27: a projectile that is not player-owned is tested against living
\* players only: the block that handles it leaves the health of a player
\* whose health is 0 or less as it is (a bullet is consumed exactly when
\* the block has called take_damage).
C27_RobotBulletSparesTheDead ==
  [][ team_log'.source = "robot_bullet"
        => /\ team.player.health <= 0 => team'.player.health = team.player.health
           /\ team.player2.health <= 0 => team'.player2.health = team.player2.health
    ]_vars

----------------------------------------------------------------------------
(* Properties of the shop prompt (specification SpecShop).                 *)

\* C28: within a match a kill opens the shop by itself at most once for
\* the 10-coin threshold (no shotgun) and at most once for the 50-coin
\* threshold (shotgun, no RPG), whatever key closed the shop before.
C28_ShopPromptsOncePerThreshold ==
  shop_log.shotgun <= 1 /\ shop_log.rpg <= 1

----------------------------------------------------------------------------
(* Properties of the robot's turn (specification SpecBot).                 *)

\* C29: after every Robot.update the AI state is given by the distance to
\* the target at the start of that update alone: attack below 300, chase
\* from 300 to below the detection range, patrol from there on; the
\* detection range is 600 for knife-only robots and 400 for the others.
C29_StateFollowsDistance ==
  bot_log.updated
    => LET dist == bot_log.dist
           detection == IF bot.robot.knife_only THEN 600 ELSE 400
       IN  /\ dist < 300 => bot.robot.state = "attack"
           /\ (300 <= dist /\ dist < detection) => bot.robot.state = "chase"
           /\ dist >= detection => bot.robot.state = "patrol"

\* A knife-only robot chases a target that a gun robot would not detect.
C29_Witness ==
  /\ bot_log.updated
  /\ bot.robot.knife_only /\ bot_log.dist = 599 /\ bot.robot.state = "chase"

\* C30: outside PvP, a robot with a gun that is in the attack state, whose
\* fire cooldown has run out and which smoke does not blind, fires in that
\* frame, also in co-op with both players alive.
C30_RangedRobotFires ==
  [][ ( /\ bot'.player2_alive = bot.player2_alive
        /\ bot_log'.updated
        /\ ~bot.robot.knife_only
        /\ bot.robot.fire_cooldown <= 1
        /\ bot_log'.dist < 300
        /\ ~bot_log'.smoke )
        => bot_log'.act = "shoot"
    ]_vars

\* A frame of the robot loop has just run (player 2's death is the only
\* other step and leaves the log alone).
BotFrameStep == bot'.player2_alive = bot.player2_alive /\ bot_log'.updated

\* C31: a robot adds projectiles in a frame only if it is not knife-only,
\* its fire cooldown has run out, its state is attack and no smoke cloud
\* contains its position or its target's; with either in smoke no
\* projectile is made and the fire cooldown is not reset in that frame.
C31_RobotFiresOnlyWhenAllowed ==
  [][ BotFrameStep =>
        /\ (bot_log'.act = "shoot" \/ bot_log'.bullets # << >>)
             => /\ bot_log'.act = "shoot" /\ bot_log'.bullets # << >>
                /\ ~bot.robot.knife_only
                /\ bot.robot.fire_cooldown <= 1
                /\ bot'.robot.state = "attack"
                /\ ~bot_log'.smoke
        /\ bot_log'.smoke
             => /\ bot_log'.bullets = << >>
                /\ bot'.robot.fire_cooldown
                     = (IF bot.robot.fire_cooldown > 0
                        THEN bot.robot.fire_cooldown - 1
                        ELSE bot.robot.fire_cooldown)
    ]_vars

\* Smoke has kept a gun robot that was free to fire from firing.
C31_Witness ==
  /\ bot_log.updated /\ bot_log.smoke /\ bot_log.act = "none"
  /\ ~bot.player2_alive
  /\ ~bot.robot.knife_only /\ bot.robot.state = "attack"
  /\ bot.robot.fire_cooldown = 0

\* C32: only knife-only robots deal knife damage; a knife attack happens
\* only with the knife cooldown at 0 and the player within knife range
\* (50), deals the knife damage (15) and sets the cooldown (30), so that two
\* knife attacks of a robot are at least a cooldown apart.
C32_KnifeContract ==
  [][ (BotFrameStep /\ bot_log'.act = "knife") =>
        /\ bot.robot.knife_only
        /\ bot.robot.knife_cooldown <= 1
        /\ bot_log'.victim_dist < 50
        /\ bot_log'.damage = 15
        /\ bot'.robot.knife_cooldown = KnifeCooldown
        /\ bot_log.gap >= 0 => bot_log.gap + 1 >= KnifeCooldown
    ]_vars

\* A robot has knifed for the second time.
C32_Witness == bot_log.act = "knife" /\ bot_log.hits = 2

\* C33: at one difficulty a throwing-knife robot's projectile carries more
\* damage than a gun robot's, and a dual-pistol robot adds two projectiles
\* that each carry less.
C33_DamageByRobotKind ==
  bot_log.act = "shoot"
    => LET gun == DIFFICULTY[bot.difficulty].damage
           kind == bot.robot.bot_type
           shot == bot_log.bullets
       IN  /\ kind = "throwing_knife"
                => \A i \in DOMAIN shot : shot[i].damage > gun
           /\ kind = "dual_pistol"
                => Len(shot) = 2 /\ \A i \in DOMAIN shot : shot[i].damage < gun
           /\ kind = "gun"
                => Len(shot) = 1 /\ shot[1].damage = gun

----------------------------------------------------------------------------
(* Properties of the boss (specification SpecBoss).                        *)

\* C34: the boss's pattern goes chase -> charge -> strafe -> chase, every
\* pattern, the first included, lasting the same number of Boss.update
\* calls; in one charge pattern the target is locked at most once, and
\* after the boss has arrived the charge does not start again before the
\* next charge pattern.
C34_BossPatternCycle ==
  [][ /\ boss'.attack_pattern # boss.attack_pattern
           => /\ boss'.attack_pattern = (boss.attack_pattern + 1) % 3
              /\ boss_log'.last_len = boss_log'.first_len
      /\ boss_log'.locks <= 1
      /\ (boss_log.arrived /\ boss'.attack_pattern = boss.attack_pattern)
           => ~boss'.is_charging /\ ~boss'.locked
    ]_vars

\* C35: the boss's fire cooldown is shorter than the fire interval of every
\* kind of robot at the difficulty that has the boss, and a volley of the
\* boss has 5 projectiles.
C35_BossFiresFasterThanRobots ==
  /\ \A kind \in BotTypes : BossFireRate < RobotFireRate(kind, "impossible")
  /\ boss_log.frames > 0 => boss_log.volley \in {0, 5}

----------------------------------------------------------------------------
(* Further properties of the weapon model (specification Spec).            *)

\* C36: no weapon's reloads counter is ever negative.
C36_ReloadsNeverNegative ==
  \A i \in 1..NumWeapons : player.weapons[i].reloads >= 0

\* C37: the update_reload call that finishes a reload refills the weapon
\* that was equipped when start_reload succeeded and takes the charge from
\* it, whatever is equipped now; no other weapon's ammo or reloads changes.
C37_ReloadBoundToWeapon ==
  [][ (call' = "frame" /\ flag')
        => LET w == reload_log.weapon + 1
           IN  /\ player'.weapons[w].ammo = Weapons[w].max_ammo
               /\ player'.weapons[w].reloads = player.weapons[w].reloads - 1
               /\ \A i \in (1..NumWeapons) \ {w} :
                    player'.weapons[i] = player.weapons[i]
    ]_vars

----------------------------------------------------------------------------
(* Property of the fire cooldown (specification SpecFire).                 *)

\* C38: two successful shots of one weapon are at least that weapon's
\* fire_rate frames apart, whatever switch or select inputs come between.
C38_FireIntervalRespected ==
  [][ ( /\ fire_log'.shots = fire_log.shots + 1
        /\ fire_log.weapon = fire_log'.weapon )
        => fire_log.since >= WeaponCatalog[fire_log.weapon + 1].fire_rate
    ]_vars

----------------------------------------------------------------------------
(* Property of the co-op match (specification SpecCombat).                 *)

\* C39: in co-op, while player 2 keeps the match going, a player 1 with
\* health <= 0 adds no bullet, grenade, smoke grenade or melee attack and
\* does not move.
C39_DeadPlayerStaysOut ==
  [][ ( /\ combat.state = "playing"
        /\ combat.player.health <= 0
        /\ Player2Alive(combat) )
        => /\ combat'.bullets = combat.bullets
           /\ combat'.grenades = combat.grenades
           /\ combat'.smoke_grenades = combat.smoke_grenades
           /\ combat'.melees = combat.melees
           /\ combat'.x = combat.x
    ]_vars

=============================================================================
